---- MODULE Spec2Model ----
(***************************************************************************)
(* The fetching engine of mget/wget2 (src/src/mget.c): admission of URLs   *)
(* (add_url_to_queue, add_url), the supervisor loop of main, the input     *)
(* thread, the downloader threads (downloader_thread, download_part,       *)
(* _save_file, set_exit_status).  The job queue, the blacklist and the     *)
(* host table live in job.c, blacklist.c and host.c; those operators are   *)
(* modelled from the specification.                                        *)
(***************************************************************************)
EXTENDS Integers, Sequences, FiniteSets, TLC

\* ------------------------------------------------------------------ bounds

NumWorkers == 2      \* config.num_threads of the bounded runs
MaxSeeds == 2        \* URLs on the command line
MaxInput == 1        \* lines the input thread reads before end of input
MaxLinks == 2        \* links one parsed document yields
MaxJobs == 3         \* Jobs one bounded run creates before the servers stop pointing to further URLs
QuotaBytes == 2      \* config.quota of the bounded runs
MaxRedirectCfg == 1  \* config.max_redirect of the bounded runs
MaxBody == 2         \* longest response body
MaxParts == 2        \* pieces of a metalink description
MaxMirrors == 2      \* mirrors of a metalink description
ChunkSize == 2       \* config.chunk_size of the bounded runs
MaxLength == 3       \* largest Content-Length a HEAD request is answered with
TriesCfg == 2        \* largest config.tries of the bounded runs

MaxRelLinks == 2     \* Link headers one response carries
MaxPri == 2          \* largest pri of a duplicate link
MaxChallenges == 2   \* challenges one 401 response offers
MaxSaves == 2         \* responses one bounded run of the file handling sees
MaxUriLen == 4       \* characters in the URL of a sitemap and in the URLs it lists
MaxAddrs == 3        \* addresses the platform resolver returns for one host
MaxCount == 2        \* bytes one wget_tcp_write or wget_tcp_read call is asked to move
MaxRequests == 4     \* requests of one http_get call the bounded runs follow
MaxSends == 3        \* send calls of one wget_tcp_write call the bounded runs follow
NumResolvers == 2    \* threads that call wget_tcp_resolve
MaxResolves == 2     \* calls of wget_tcp_resolve one thread makes
MaxFnum == 3         \* stands for the 999 of the loop of _save_file (line 1643)
MaxTries == 3        \* attempts of downloader_thread per job

Workers == 1..NumWorkers

\* ------------------------------------------------------------------ URLs

Schemes == {"http", "https"}
Hosts == {"a", "b"}
RobotsTxt == <<"r">>
\* iri->path == NULL: a URL that names a host only
NoPath == <<>>
Paths == {NoPath, RobotsTxt, <<"x">>, <<"x", "y">>, <<"x", "z">>}
IRIs == [scheme : Schemes, host : Hosts, path : Paths]
NoIri == [scheme |-> "-", host |-> "-", path |-> <<>>]
BadUrl == [scheme |-> "-", host |-> "?", path |-> <<>>]
RawUrls == IRIs \cup {BadUrl}
U(h, p) == [scheme |-> "http", host |-> h, path |-> p]
Https(h, p) == [scheme |-> "https", host |-> h, path |-> p]

\* the strings the bounded runs feed in: command line and standard input, the links of
\* documents, the Location headers
SeedUrls == {U("a", <<"x">>), U("a", <<"x", "y">>), BadUrl}
LinkUrls == {U("a", <<"x", "y">>), U("b", <<"x">>), U("a", RobotsTxt)}
LocationUrls == {U("a", <<"x", "y">>), U("b", <<"x">>), U("b", <<"x", "y">>)}

\* mget_iri_parse: NULL for a string that is no URL
iri_parse(raw) == IF raw \in IRIs THEN raw ELSE NoIri

\* mget_iri_parse_base(iri, "/robots.txt", encoding)
robots_iri(iri) == [scheme |-> iri.scheme, host |-> iri.host, path |-> RobotsTxt]

\* strncmp(path->path, iri->path, path->len) == 0
path_prefix(p, s) == Len(p) <= Len(s) /\ SubSeq(s, 1, Len(p)) = p

RuleSets == {{}, {<<"x">>}}

\* ------------------------------------------------------------------ configurations

\* struct config: the options the model reads
Config(threads, recursive, robots, quota, input) ==
    [num_threads |-> threads, recursive |-> recursive, robots |-> robots, quota |-> quota,
     max_redirect |-> MaxRedirectCfg, level |-> 0, input |-> input,
     https_only |-> FALSE, span_hosts |-> TRUE, parent |-> TRUE,
     domains |-> {}, exclude_domains |-> {},
     tries |-> MaxTries, chunk_size |-> 0, keep_alive |-> FALSE, https_enforce |-> "none",
     spider |-> FALSE, delete_after |-> FALSE, output_document |-> "",
     timestamping |-> FALSE, clobber |-> TRUE, directories |-> TRUE,
     continue_download |-> FALSE]

\* the surroundings of a bounded run: the kinds of answer its servers give, whether
\* writing to the disk can fail, how many URLs the command line may hold, whether the
\* servers speak plain HTTP only
Env(answers, disk_fails, urls) ==
    [answers |-> answers, disk_fails |-> disk_fails, urls |-> urls, http_only |-> FALSE,
     seed_urls |-> SeedUrls, link_urls |-> LinkUrls, location_urls |-> LocationUrls]

\* one downloader, standard input and signals: the supervisor's loop
ScSupervisor == [config |-> Config(1, FALSE, FALSE, 0, TRUE),
                 env |-> Env({"none", "html"}, FALSE, MaxSeeds)]
\* two downloaders saving under a quota and reporting failures
ScStatus == [config |-> Config(2, FALSE, FALSE, QuotaBytes, FALSE),
             env |-> Env({"html", "notfound"}, TRUE, MaxSeeds)]
\* recursion with redirections
ScRecursive == [config |-> Config(2, TRUE, FALSE, 0, FALSE),
                env |-> Env({"html", "redirect"}, FALSE, MaxSeeds)]
\* recursion with robots.txt
ScRobots == [config |-> Config(1, TRUE, TRUE, 0, TRUE),
             env |-> Env({"html", "plain", "notfound"}, FALSE, MaxSeeds)]

\* two downloaders fetching the parts of metalink descriptions
ScMetalink == [config |-> Config(2, FALSE, FALSE, 0, FALSE),
               env |-> Env({"metalink"}, FALSE, 1)]

\* two downloaders and two URLs: the http one is answered with a metalink description,
\* with 404 or not at all, the https one reaches no server
ScRemoval == [config |-> Config(2, FALSE, FALSE, 0, FALSE),
              env |-> [Env({"metalink", "notfound", "none"}, FALSE, MaxSeeds) EXCEPT
                         !.seed_urls = {U("a", <<"x">>), Https("a", <<"x">>)},
                         !.http_only = TRUE]]

\* recursion over two servers whose documents link to the same path of their own server
ScTokens == [config |-> Config(2, TRUE, FALSE, 0, FALSE),
             env |-> [Env({"html"}, FALSE, MaxSeeds) EXCEPT
                        !.seed_urls = {U("a", <<"x">>), U("b", <<"x">>)},
                        !.link_urls = {U("a", <<"x", "y">>), U("b", <<"x", "y">>)}]]

\* retrieval with --https-only: seeds, links and Location headers of both schemes
ScHttps == [config |-> [Config(1, TRUE, FALSE, 0, FALSE) EXCEPT !.https_only = TRUE],
            env |-> [Env({"html", "redirect"}, FALSE, MaxSeeds) EXCEPT
                       !.seed_urls = {U("a", <<"x">>), Https("a", <<"x">>)},
                       !.link_urls = {U("a", <<"x", "y">>), Https("a", <<"x", "y">>)},
                       !.location_urls = {U("b", <<"x">>), Https("b", <<"x">>)}]]

\* retrieval without --span-hosts, recursive or not, with the options --domains and
\* --exclude-domains
ScScope(recursive, domains, exclude) ==
    [config |-> [Config(1, recursive, FALSE, 0, FALSE) EXCEPT
                   !.span_hosts = FALSE, !.domains = domains, !.exclude_domains = exclude],
     env |-> [Env({"html", "redirect", "notfound"}, FALSE, 1) EXCEPT
                !.seed_urls = {U("a", <<"x">>)},
                !.link_urls = {U("a", <<"x", "y">>), U("b", <<"x">>)},
                !.location_urls = {U("a", <<"x", "z">>), U("b", <<"x", "y">>)}]]

\* recursive retrieval with --no-parent
ScNoParent == [config |-> [Config(1, TRUE, FALSE, 0, FALSE) EXCEPT !.parent = FALSE],
               env |-> [Env({"html"}, FALSE, MaxSeeds) EXCEPT
                          !.seed_urls = {U("a", <<"x", "y">>), U("b", <<"x">>)},
                          !.link_urls = {U("a", <<"x", "z">>), U("a", <<"x">>),
                                         U("a", NoPath), U("b", <<"x", "z">>)}]]

\* downloads in pieces of config.chunk_size bytes, and of metalink descriptions
ScChunk(threads) ==
    [config |-> [Config(threads, FALSE, FALSE, 0, FALSE) EXCEPT !.chunk_size = ChunkSize],
     env |-> Env({"none", "html", "metalink"}, FALSE, 1)]

\* one downloader, --tries=t, servers that may not answer
ScTries(t) == [config |-> [Config(1, FALSE, FALSE, 0, FALSE) EXCEPT !.tries = t],
               env |-> Env({"none", "html"}, FALSE, MaxSeeds)]

\* tests/test--https-enforce-hard2.c: a server started with WGET_TEST_HTTP_ONLY, asked
\* for index.html under --https-enforce=mode
ScEnforce(mode) ==
    [config |-> [Config(1, FALSE, FALSE, 0, FALSE) EXCEPT !.https_enforce = mode],
     env |-> [Env({"html"}, FALSE, MaxSeeds) EXCEPT
                !.http_only = TRUE,
                !.seed_urls = {U("a", <<"x">>), U("a", <<"x", "y">>)}]]

\* one downloader, servers that keep connections alive, URLs of two schemes and two
\* hosts, redirections among them
ScConn == [config |-> [Config(1, FALSE, FALSE, 0, FALSE) EXCEPT !.keep_alive = TRUE],
           env |-> [Env({"none", "html", "redirect"}, FALSE, MaxSeeds) EXCEPT
                      !.seed_urls = {U("a", <<"x">>), U("a", <<"x", "y">>),
                                     Https("a", <<"x">>), U("b", <<"x">>)},
                      !.location_urls = {U("a", <<"x", "z">>), Https("a", <<"x", "z">>)}]]

\* one downloader, servers that ask for credentials
ScAuth == [config |-> Config(1, FALSE, FALSE, 0, FALSE),
           env |-> Env({"auth", "html"}, FALSE, MaxSeeds)]

\* one downloader, servers that answer with Link headers (RFC 6249)
ScLinks == [config |-> Config(1, FALSE, FALSE, 0, FALSE),
            env |-> [Env({"mlinks", "html"}, FALSE, 1) EXCEPT
                       !.seed_urls = {U("a", <<"x">>)}]]

\* a run of one or more downloaders to its end
ScShutdown(threads) == [config |-> Config(threads, FALSE, FALSE, 0, FALSE),
                        env |-> Env({"html"}, FALSE, MaxSeeds)]

\* recursive retrieval with robots.txt from servers that answer 403 and 404
ScErrors == [config |-> Config(1, TRUE, TRUE, 0, FALSE),
             env |-> Env({"html", "plain", "notfound", "forbidden"}, FALSE, MaxSeeds)]

\* the options _save_file and its callers read
ScSave(recursive, directories, clobber, timestamping, continue_download, output_document) ==
    [config |-> [Config(0, recursive, FALSE, 0, FALSE) EXCEPT
                   !.directories = directories, !.clobber = clobber,
                   !.timestamping = timestamping,
                   !.continue_download = continue_download,
                   !.output_document = output_document],
     env |-> Env({}, FALSE, 0)]

\* unit-tests/test-cond.c: no URL, the downloader engine is not run
ScCondTest == [config |-> Config(0, FALSE, FALSE, 0, FALSE), env |-> Env({}, FALSE, 0)]

VARIABLES
    config,       \* struct config: the options of the run
    blacklist,    \* blacklist.c: the URLs blacklist_add has accepted
    hosts,        \* host.c: host entry per host name
    queue,        \* job.c: the job queue, in admission order
    nextId,       \* identity of the next JOB queue_add allocates
    enq,          \* history: number of Jobs ever created per URL
    terminate,    \* static int terminate
    input_tid,    \* input_tid: TRUE while the input thread lives
    inputCount,   \* lines the input thread has read
    main_mutex,   \* holder of main_mutex: "none", "main" or "worker"
    mainpc,       \* position of main
    pc,           \* position of each downloader thread
    wjob,         \* downloader->job (id, 0 for none)
    wpart,        \* downloader->part (index into job->parts, 0 for none)
    links,        \* URLs of the parsed document still to be passed to add_url
    tries,        \* the tries counter of the download loop
    env,          \* the surroundings of the run: what servers answer, whether the disk fails
    known_urls,   \* static MGET_HASHMAP *known_urls
    exit_status,  \* static int exit_status
    ses,          \* per downloader: the status it is reporting, and the value it read
    quota,        \* long long quota: bytes reserved so far
    written,      \* history: bytes written by _save_file while a quota is set
    reported,     \* history: the statuses whose set_exit_status call has returned
    gets,         \* history: the URLs a request got an answer for
    refused,      \* history: add_url has refused a redirection beyond max_redirect
    scope,        \* config.domains (hosts of the seeds) and the vector parents
    rejected,     \* history: the URLs add_url has not followed, with the reason
    cond_test,    \* unit-tests/test-cond.c: cond_value, lockcond, condtest and its two threads
    fs,           \* the local files _save_file works on, and the response handled last
    call,         \* the call of a library or parser function looked at on its own:
                  \* the function, its arguments, its result
    dns,          \* libwget/net.c: resolve_mutex, the DNS cache, the threads in
                  \* wget_tcp_resolve
    http,         \* per downloader: downloader->conn, its open sockets, its last request
    validations   \* history: the Jobs job_validate_file has found valid, with the caller

vars == <<config, blacklist, hosts, queue, nextId, enq, terminate, input_tid,
          inputCount, main_mutex, mainpc, pc, wjob, links, tries, env,
          known_urls, exit_status, ses, quota, written,
          reported, gets, refused, wpart, validations, scope, rejected,
          cond_test, http, fs, call, dns>>

\* ------------------------------------------------------------------ jobs and hosts

NoHost == [known |-> FALSE, robot_job |-> 0, loaded |-> FALSE, paths |-> {}, failures |-> 0]

\* JOB job = { .iri = iri } of queue_add, plus history fields
\* (url0, origin, plevel, prlevel) that record how the Job was created
new_job(id, iri) ==
    [id |-> id, iri |-> iri, level |-> 0, redirection_level |-> 0,
     referer |-> NoIri, has_deferred |-> FALSE, deferred |-> <<>>,
     sitemap |-> FALSE, inuse |-> FALSE, host |-> "-", mirrors |-> 0, parts |-> <<>>,
     size |-> 0, file |-> <<>>,
     url0 |-> iri, origin |-> "seed", plevel |-> 0, prlevel |-> 0]

job_idx(q, id) == CHOOSE i \in 1..Len(q) : q[i].id = id
has_job(q, id) == \E i \in 1..Len(q) : q[i].id = id
job_of(q, id) == q[job_idx(q, id)]

\* The shared structures the admission path reads and writes, as one value
Store == [blacklist |-> blacklist, hosts |-> hosts, queue |-> queue,
          nextId |-> nextId, enq |-> enq, refused |-> refused, scope |-> scope,
          rejected |-> rejected, signal |-> FALSE, crash |-> FALSE]

\* queue_add: append a zeroed JOB for iri
queue_add(st, iri) ==
    [st EXCEPT !.queue = Append(@, new_job(st.nextId, iri)),
               !.nextId = @ + 1,
               !.enq = [@ EXCEPT ![iri] = @ + 1]]

set_job(st, id, j) == [st EXCEPT !.queue[job_idx(st.queue, id)] = j]

\* hosts_add: the new entry, or NULL when the host is already known
hosts_is_new(st, iri) == ~st.hosts[iri.host].known
hosts_add(st, iri) == [st EXCEPT !.hosts[iri.host].known = TRUE]
\* hosts_get
hosts_get(st, iri) == st.hosts[iri.host]

\* blacklist_add: the iri on first insertion, NULL when already present
blacklist_has(st, iri) == iri \in st.blacklist
blacklist_add(st, iri) == [st EXCEPT !.blacklist = @ \cup {iri}]

\* the robots.txt job of a new host, with iri as its first deferred URL
\* (mget.c 358-364 and 490-496)
add_robot_job(st, iri) ==
    LET id == st.nextId
        s1 == queue_add(hosts_add(st, iri), robots_iri(iri))
        j == [job_of(s1.queue, id) EXCEPT !.host = iri.host, !.has_deferred = TRUE,
                                          !.deferred = <<iri>>, !.origin = "robots"]
    IN [set_job(s1, id, j) EXCEPT !.hosts[iri.host].robot_job = id]

\* mget_vector_add_noalloc(host->robot_job->deferred, iri)
defer_iri(st, iri) ==
    LET id == st.hosts[iri.host].robot_job
        j == job_of(st.queue, id)
    IN set_job(st, id, [j EXCEPT !.deferred = Append(@, iri)])

\* variant: a URL of a host whose robots.txt is in flight is never parked
robots_pending_never(st, iri) ==
    FALSE

\* host->robot_job is set: the robots.txt of the host is still being fetched
robots_pending(st, iri) ==
    config.recursive /\ config.robots /\ hosts_get(st, iri).robot_job # 0

\* lines 347-353: the host of a seed joins config.domains unless it is excluded
put_domain(st, iri) ==
    IF config.recursive /\ ~config.span_hosts /\ iri.host \notin config.exclude_domains
    THEN [st EXCEPT !.scope.domains = @ \cup {iri.host}]
    ELSE st

\* lines 370-383: the seed joins the vector parents
put_parent(st, iri) ==
    IF config.recursive /\ ~config.parent
    THEN [st EXCEPT !.scope.parents = Append(@, iri)]
    ELSE st

\* add_url_to_queue: URLs given by the user (command line, input file, stdin)
add_url_to_queue(st, raw) ==
    LET iri == iri_parse(raw) IN
    IF iri = NoIri THEN st
    ELSE IF blacklist_has(st, iri) THEN st
    ELSE LET s1 == put_domain(blacklist_add(st, iri), iri)
             s2 == IF config.recursive /\ config.robots /\ hosts_is_new(s1, iri)
                   THEN add_robot_job(s1, iri)
                   ELSE IF robots_pending(s1, iri)
                   THEN defer_iri(s1, iri)
                   ELSE s1
             s3 == put_parent(s2, iri)
         IN IF s2 = s1 THEN queue_add(s3, iri) ELSE s3

\* host->robots && some path of it is a prefix of iri->path
robots_disallow(h, iri) ==
    h.loaded /\ \E p \in h.paths : path_prefix(p, iri.path)

\* lines 527-541 of add_url: the fields of the new Job, the parent's iri, the signal
link_job(st, jid, id, redirect, sitemap) ==
    LET nj == job_of(st.queue, id)
        s1 == IF jid = 0 \/ ~has_job(st.queue, jid) THEN st
              ELSE LET job == job_of(st.queue, jid) IN
                   IF redirect
                   THEN set_job(st, id,
                          [nj EXCEPT !.redirection_level = job.redirection_level + 1,
                                     !.referer = job.referer,
                                     !.origin = IF nj.origin = "robots" THEN @ ELSE "redirect",
                                     !.plevel = job.level,
                                     !.prlevel = job.redirection_level])
                   ELSE set_job(
                          set_job(st, id,
                            [nj EXCEPT !.level = job.level + 1,
                                       !.referer = job.iri,
                                       !.origin = IF nj.origin = "robots" THEN @ ELSE "link",
                                       !.plevel = job.level,
                                       !.prlevel = job.redirection_level]),
                          jid, [job EXCEPT !.iri = NoIri])
        s2 == IF sitemap
              THEN set_job(s1, id, [job_of(s1.queue, id) EXCEPT !.sitemap = TRUE])
              ELSE s1
    IN [s2 EXCEPT !.signal = TRUE]

\* variant: the comparison of line 416 with > in place of >=
redirect_refused_late(st, jid) ==
    /\ config.max_redirect # 0 /\ jid # 0 /\ has_job(st.queue, jid)
    /\ job_of(st.queue, jid).redirection_level > config.max_redirect

\* line 416: config.max_redirect && job && job->redirection_level >= config.max_redirect
redirect_refused(st, jid) ==
    /\ config.max_redirect # 0 /\ jid # 0 /\ has_job(st.queue, jid)
    /\ job_of(st.queue, jid).redirection_level >= config.max_redirect

\* lines 375-378: the length of the directory part of iri->path (0 without a '/'),
\* counted in path segments
dirlen(iri) == IF Len(iri.path) <= 1 THEN 0 ELSE Len(iri.path) - 1

\* what a call with undefined behaviour can do
UB == {"crash", "zero", "nonzero"}

\* lines 447-457: the loop over parents, which stops at the first match.
\* strncmp(parent->path, iri->path, parent->dirlen) with iri->path == NULL is undefined:
\* the program may stop there, or the call may return anything (ub).
RECURSIVE parent_matches(_, _, _)
parent_matches(ps, iri, ub) ==
    IF ps = <<>> THEN "no"
    ELSE LET parent == Head(ps)
             n == dirlen(parent)
         IN IF parent.host # iri.host THEN parent_matches(Tail(ps), iri, ub)
            ELSE IF n = 0 THEN "ok"
            ELSE IF iri.path = NoPath
            THEN (IF ub = "crash" THEN "crash"
                  ELSE IF ub = "zero" THEN "ok"
                  ELSE parent_matches(Tail(ps), iri, ub))
            ELSE IF Len(iri.path) > n /\ SubSeq(iri.path, 1, n) = SubSeq(parent.path, 1, n)
            THEN "ok"
            ELSE parent_matches(Tail(ps), iri, ub)

\* variant: every host is in scope
span_reason_none(st, iri) ==
    ""

\* lines 467-478: the reason not to follow a URL to another host, "" for none
span_reason(st, iri) ==
    IF iri.host \notin st.scope.domains THEN "no host-spanning requested"
    ELSE IF iri.host \in config.exclude_domains THEN "domain explicitely excluded"
    ELSE ""

reject(st, raw, reason) ==
    [st EXCEPT !.rejected = @ \cup {[url |-> raw, reason |-> reason]}]

\* add_url: URLs found by a downloader (links, redirections, sitemaps)
add_url(st, jid, raw, redirect, sitemap, ub) ==
    LET iri == iri_parse(raw) IN
    IF redirect /\ redirect_refused(st, jid)
    THEN [st EXCEPT !.refused = TRUE]
    ELSE IF iri = NoIri THEN st
    ELSE IF config.https_only /\ iri.scheme # "https"
    THEN reject(st, raw, "https-only requested")
    ELSE IF config.recursive /\ ~config.parent
            /\ parent_matches(st.scope.parents, iri, ub) = "crash"
    THEN [st EXCEPT !.crash = TRUE]
    ELSE IF config.recursive /\ ~config.parent
            /\ parent_matches(st.scope.parents, iri, ub) = "no"
    THEN reject(st, raw, "parent ascending not allowed")
    ELSE IF config.recursive /\ ~config.span_hosts /\ span_reason(st, iri) # ""
    THEN reject(st, raw, span_reason(st, iri))
    ELSE IF config.recursive /\ config.robots /\ hosts_is_new(st, iri)
    THEN link_job(add_robot_job(st, iri), jid, st.nextId, redirect, sitemap)
    ELSE IF robots_pending(st, iri)
    THEN defer_iri(st, iri)
    ELSE IF config.recursive /\ config.robots /\ robots_disallow(hosts_get(st, iri), iri)
    THEN st
    ELSE IF blacklist_has(st, iri) THEN st
    ELSE link_job(queue_add(blacklist_add(st, iri), iri), jid, st.nextId, redirect, sitemap)

\* ------------------------------------------------------------------ queue (job.c)

\* the parts of a Job no downloader has been given
\* MGET_HTTP_LINK: a Link header of a response (RFC 6249).  The describedby links of
\* the bounded runs all carry a type, and the duplicate links a pri
HttpLink(rel, type, pri, uri) == [rel |-> rel, type |-> type, pri |-> pri, uri |-> uri]
NoLink == HttpLink("-", "-", 0, NoIri)
MetalinkTypes == {"application/metalink4+xml", "application/metalink+xml"}
HttpLinks ==
    {HttpLink("describedby", t, 0, U("b", <<"x">>)) :
        t \in {"application/metalink4+xml", "application/x-bittorrent"}}
    \cup {HttpLink("duplicate", "-", p, u) :
            p \in 1..MaxPri, u \in {U("b", <<"x", "y">>), U("b", <<"x", "z">>)}}

\* http_get 1950-1982: the Location header of a response is followed by a redirection
\* Job, except for a 302 that has Link and Digest headers; codes 2xx end http_get before
location_followed(r) ==
    /\ ~(r.code = 302 /\ r.rels # <<>> /\ r.digests)
    /\ r.code \div 100 = 3
    /\ r.loc # NoIri

\* downloader_thread 982-997: the loop over resp->links stops at the first describedby
\* link to a metalink description, and keeps the duplicate link of lowest pri
RECURSIVE find_links(_, _, _)
find_links(rels, it, top_link) ==
    IF it > Len(rels) THEN [metalink |-> NoLink, top_link |-> top_link]
    ELSE LET link == rels[it] IN
         IF link.rel = "describedby"
         THEN IF link.type \in MetalinkTypes
              THEN [metalink |-> link, top_link |-> top_link]
              ELSE find_links(rels, it + 1, top_link)
         ELSE IF link.rel = "duplicate"
         THEN find_links(rels, it + 1,
                         IF top_link = NoLink \/ top_link.pri > link.pri THEN link
                         ELSE top_link)
         ELSE find_links(rels, it + 1, top_link)

\* the Jobs a response with Link headers leads to: add_url for the Location inside
\* http_get (1967-1981), then add_url for the description or else for the top
\* duplicate in downloader_thread (999-1007)
links_admission(st, jid, r, ub1, ub2) ==
    LET s1 == IF location_followed(r) THEN add_url(st, jid, r.loc, TRUE, FALSE, ub1) ELSE st
        found == find_links(r.rels, 1, NoLink)
    IN IF s1.crash THEN s1
       ELSE IF found.metalink # NoLink
       THEN add_url(s1, jid, found.metalink.uri, FALSE, FALSE, ub2)
       ELSE IF found.top_link # NoLink
       THEN add_url(s1, jid, found.top_link.uri, FALSE, FALSE, ub2)
       ELSE s1

\* the URLs of the Jobs created between two states of the queue, in order
jobs_added(q, from, to) == [k \in 1..(to - from) |-> job_of(q, from + k - 1).url0]

free_parts(j) == {k \in 1..Len(j.parts) : ~j.parts[k].inuse /\ ~j.parts[k].done}
lowest(S) == CHOOSE i \in S : \A k \in S : i <= k

\* queue_get: of the first Job in admission order that has something to hand out, a part
\* when the Job has parts, else the Job itself; job 0 when there is nothing
free_jobs(q) ==
    {i \in 1..Len(q) : IF q[i].parts # <<>> THEN free_parts(q[i]) # {} ELSE ~q[i].inuse}
queue_get(q) ==
    IF free_jobs(q) = {} THEN [job |-> 0, part |-> 0]
    ELSE LET j == q[lowest(free_jobs(q))]
         IN [job |-> j.id, part |-> IF j.parts # <<>> THEN lowest(free_parts(j)) ELSE 0]

\* a metalink piece: MGET_METALINK_PIECE with its position and length
Piece(position, length) == [position |-> position, length |-> length]

\* lines 899-908: the pieces of a file of content_length bytes cut by config.chunk_size;
\* every piece, the last included, has length chunk_size
chunk_pieces(content_length, chunk_size) ==
    LET npieces == (content_length + chunk_size - 1) \div chunk_size
    IN [it \in 1..npieces |-> Piece((it - 1) * chunk_size, chunk_size)]

\* the pieces of a metalink description of size bytes: one byte each
metalink_pieces(size) == [it \in 1..size |-> Piece(it - 1, 1)]

Min(a, b) == IF a < b THEN a ELSE b

\* the parts built from the pieces of a description, in order, inuse and done unset;
\* each part starts where the one before ends and the last holds what is left of size
\* bytes; good tells whether the bytes of the piece in the file match its hash
\* (bad: the pieces that do not)
RECURSIVE part_position(_, _)
part_position(pieces, k) ==
    IF k = 1 THEN 0 ELSE part_position(pieces, k - 1) + pieces[k - 1].length
create_parts(pieces, size, bad) ==
    [k \in 1..Len(pieces) |->
        [done |-> FALSE, inuse |-> FALSE, good |-> k \notin bad,
         position |-> part_position(pieces, k),
         length |-> Min(pieces[k].length, size - part_position(pieces, k))]]

\* the target file of a Job with parts before any part is written: size bytes, none set
empty_file(size) == [o \in 1..size |-> 0]

\* variant: the body is written at the start of the file
pwrite_at_start(file, k, length, position) ==
    [o \in 1..Len(file) |-> IF o <= length THEN k ELSE file[o]]

\* line 1739: pwrite(fd, body, length, part->position); the bytes of the body of part k
\* are written as k
pwrite(file, k, length, position) ==
    [o \in 1..Len(file) |-> IF o > position /\ o <= position + length THEN k ELSE file[o]]

\* job_validate_file: the file is valid when the bytes of every piece match
job_validate_file(j) == \A k \in 1..Len(j.parts) : j.parts[k].good

\* the deferred URLs of a finished robots.txt job become Jobs, except those the
\* loaded rules disallow
RECURSIVE release_deferred(_, _)
release_deferred(st, d) ==
    IF d = <<>> THEN st
    ELSE LET iri == Head(d)
             s1 == IF robots_disallow(st.hosts[iri.host], iri) THEN st
                   ELSE LET id == st.nextId
                            s2 == queue_add(st, iri)
                        IN set_job(s2, id, [job_of(s2.queue, id) EXCEPT !.origin = "deferred"])
         IN release_deferred(s1, Tail(d))

remove_job(q, id) == SelectSeq(q, LAMBDA j : j.id # id)

\* queue_del: detach the Job; a robots.txt job releases its host and its deferred URLs
queue_del(st, id) ==
    IF id = 0 \/ ~has_job(st.queue, id) THEN st
    ELSE LET j == job_of(st.queue, id)
             s1 == [st EXCEPT !.queue = remove_job(@, id)]
         IN IF j.has_deferred
            THEN release_deferred([s1 EXCEPT !.hosts[j.host].robot_job = 0], j.deferred)
            ELSE s1

\* ------------------------------------------------------------------ server answers

RECURSIVE seqs_upto(_, _)
seqs_upto(S, n) ==
    IF n = 0 THEN {<<>>}
    ELSE LET shorter == seqs_upto(S, n - 1)
         IN shorter \cup {Append(q, x) : q \in shorter, x \in S}

LinkSeqs == seqs_upto(env.link_urls, MaxLinks)

\* body lengths matter to the quota only
BodyLens == IF config.quota # 0 THEN 1..MaxBody ELSE {1}

Resp(kind, loc, ls, rules, len) ==
    [kind |-> kind, loc |-> loc, links |-> ls, rules |-> rules, len |-> len,
     size |-> 0, mirrors |-> 0, code |-> 0, rels |-> <<>>, digests |-> FALSE]

\* a response with Link headers: code 200 or 302, with or without Digest headers,
\* with or without a Location header
LinkResp(code, rels, digests, loc) ==
    [Resp("mlinks", loc, <<>>, {}, 0) EXCEPT !.code = code, !.rels = rels,
                                             !.digests = digests]
NoResponse == Resp("none", NoIri, <<>>, {}, 0)
\* a metalink description: size pieces of one byte each, a number of mirrors
Metalink(size, mirrors) ==
    [Resp("metalink", NoIri, <<>>, {}, 1) EXCEPT !.size = size, !.mirrors = mirrors]
Responses ==
    {NoResponse, Resp("notfound", NoIri, <<>>, {}, 0), Resp("auth", NoIri, <<>>, {}, 0),
     Resp("forbidden", NoIri, <<>>, {}, 0)}
    \cup {Resp("redirect", u, <<>>, {}, 0) : u \in env.location_urls}
    \cup {Resp("html", NoIri, ls, {}, n) : ls \in LinkSeqs, n \in BodyLens}
    \cup {Resp("plain", NoIri, ls, rs, n) : ls \in LinkSeqs, rs \in RuleSets, n \in BodyLens}
    \cup {Metalink(n, m) : n \in 0..MaxParts, m \in 0..MaxMirrors}
    \cup (IF "mlinks" \in env.answers
          THEN {LinkResp(c, rels, d, loc) :
                  c \in {200, 302}, rels \in seqs_upto(HttpLinks, MaxRelLinks) \ {<<>>},
                  d \in BOOLEAN, loc \in {NoIri, U("a", <<"x", "z">>)}}
          ELSE {})

\* --https-enforce: the URL a request is made for; an http URL is asked for over https
\* unless the mode is none
request_iri(iri) ==
    IF config.https_enforce # "none" /\ iri.scheme = "http"
    THEN [iri EXCEPT !.scheme = "https"]
    ELSE iri

\* whether a request for the URL of the Job reaches a server: a server that speaks
\* plain HTTP only is reached over https by no connection, and the request falls back
\* to http only under --https-enforce=soft
connects(iri) ==
    \/ ~env.http_only
    \/ request_iri(iri).scheme = "http"
    \/ (iri.scheme = "http" /\ config.https_enforce = "soft")

\* resp->keep_alive: the servers of the bounded runs keep a connection alive only
\* when asked to with Connection: keep-alive (line 1869), and need not even then
KeepAlives == IF config.keep_alive THEN BOOLEAN ELSE {FALSE}

\* the mirror download_part asks in its turn number n (mirror_index, 1708-1719): the
\* mirrors of the bounded runs serve the path of the Job on the hosts a, b, a, ...
mirror_iri(j, w, n) ==
    IF ((w + n) % j.mirrors) % 2 = 0 THEN [j.url0 EXCEPT !.host = "a"]
    ELSE [j.url0 EXCEPT !.host = "b"]

\* the auth_scheme of a challenge, in lower case as strcasecmp compares it
AuthSchemes == {"digest", "basic", "ntlm"}

\* resp->challenges of the answers with code 401
ChallengeSeqs == seqs_upto(AuthSchemes, MaxChallenges)
challenges_of(r) == IF r.kind = "auth" THEN ChallengeSeqs ELSE {<<>>}

\* http_get 1953-1961: a 401 with challenges, when none are held yet, is answered by
\* another request
auth_retry(h, r, cs) == r.kind = "auth" /\ h.challenges = <<>> /\ cs # <<>>

\* the failure of a request that is not to be retried
Refused == [kind |-> "refused", loc |-> NoIri, links |-> <<>>, rules |-> {}, len |-> 0,
            size |-> 0, mirrors |-> 0]

\* what the servers of this run answer; once MaxJobs Jobs exist no answer points to
\* a further URL
Answers ==
    {r \in Responses : /\ r.kind \in env.answers
                       /\ (nextId > MaxJobs =>
                             (r.kind \notin {"redirect", "mlinks"} /\ r.links = <<>>))}

\* ------------------------------------------------------------------ condition variables

\* mget_thread_cond_signal(&worker_cond): one of the waiting downloaders, if any
Waiters == {w \in Workers : pc[w] = "waiting"}
SignalTargets(on) == IF on /\ Waiters # {} THEN Waiters ELSE {0}

\* the positions after a step of thread self that signals worker_cond
pc_after(self, next, wake) ==
    [w \in Workers |-> IF w = self THEN next
                       ELSE IF w = wake THEN "woken" ELSE pc[w]]

\* the process has stopped on a memory fault: no thread takes a further step
crashed == [w \in Workers |-> "crashed"]

\* mget_thread_cond_signal(&main_cond)
main_signalled == IF mainpc = "wait" THEN "woken" ELSE mainpc

put_store(st) ==
    /\ blacklist' = st.blacklist
    /\ hosts' = st.hosts
    /\ queue' = st.queue
    /\ nextId' = st.nextId
    /\ enq' = st.enq
    /\ refused' = st.refused
    /\ scope' = st.scope
    /\ rejected' = st.rejected

\* ------------------------------------------------------------------ initial state

EmptyStore == [blacklist |-> {}, hosts |-> [h \in Hosts |-> NoHost], queue |-> <<>>,
               nextId |-> 1, enq |-> [u \in IRIs |-> 0], refused |-> FALSE,
               scope |-> [domains |-> {}, parents |-> <<>>], rejected |-> {},
               signal |-> FALSE, crash |-> FALSE]

\* main 693-695: the URLs of the command line, in order
RECURSIVE add_seeds(_, _)
add_seeds(st, seeds) ==
    IF seeds = <<>> THEN st
    ELSE add_seeds(add_url_to_queue(st, Head(seeds)), Tail(seeds))

SeedSeqs(S) == seqs_upto(S, MaxSeeds)

\* test-cond.c before test_cond is called: no thread started.  cond_value is a plain
\* int shared by the two threads: mem is its value in memory, cache[t] the value thread
\* t works with, dirty[t] whether t has written it and not yet published it.  lockcond
\* names the holder of the mutex, waited records that the thread has entered its wait,
\* signalled that the signal of line 64 found the thread waiting, exit_code the result
\* of main ("" while it runs)
CondThreads == {"main", "thread"}
CondTestInit ==
    [mpc |-> "main", tpc |-> "unstarted", mem |-> 0,
     cache |-> [t \in CondThreads |-> 0], dirty |-> [t \in CondThreads |-> FALSE],
     lockcond |-> "none", remain |-> 1, waited |-> FALSE, signalled |-> FALSE,
     exit_code |-> ""]

\* a downloader that has made no request: downloader->conn is NULL, no connection is
\* open.  last describes the request whose response the downloader holds: the
\* connection it found, the URL asked for, whether the connection was used again, and
\* the largest number of connections that were open at one time while it was made
NoConn == [scheme |-> "-", host |-> "-", port |-> 0]
NoRequest == [before |-> NoConn, target |-> NoIri, reused |-> FALSE, peak |-> 0]
NoChallenge == "-"
NoAuth == [offered |-> <<>>, used |-> NoChallenge]
\* linked describes the response with Link headers the downloader holds: its links,
\* its Location, the URLs known before it came, the URLs of the Jobs made for it
NoLinked == [rels |-> <<>>, loc |-> NoIri, known |-> {}, jobs |-> <<>>]
NoHttp == [conn |-> NoConn, open |-> 0, last |-> NoRequest, challenges |-> <<>>,
           auth |-> NoAuth, linked |-> NoLinked, answer |-> ""]

\* http_get 1900-1911: the loop over the challenges of the 401 response; strcasecmp
\* returns 0 for equal strings
RECURSIVE select_challenge(_, _, _)
select_challenge(challenges, it, selected_challenge) ==
    IF it > Len(challenges) THEN selected_challenge
    ELSE LET challenge == challenges[it] IN
         IF challenge # "digest" THEN challenge
         ELSE IF challenge # "basic"
              THEN select_challenge(challenges, it + 1,
                                    IF selected_challenge = NoChallenge THEN challenge
                                    ELSE selected_challenge)
              ELSE select_challenge(challenges, it + 1, selected_challenge)

\* http_get 1894-1915 and 1953-1961: a request made while challenges are held carries
\* the credentials for the selected challenge; a first 401 with challenges keeps them
\* for the next turn of the loop, any other outcome ends http_get, which frees them
http_challenges(h, before, retry, cs) ==
    LET sent == IF before # <<>>
                THEN [h EXCEPT !.auth = [offered |-> before,
                                         used |-> select_challenge(before, 1, NoChallenge)]]
                ELSE h
    IN [sent EXCEPT !.challenges = IF retry THEN cs ELSE <<>>]

\* iri->resolv_port: the default port of the scheme
resolv_port(iri) == IF iri.scheme = "https" THEN 443 ELSE 80

\* variant: the scheme of the connection is not compared
reuse_connection_any_scheme(conn, iri) ==
    conn # NoConn /\ conn.host = iri.host

\* http_get 1796-1798: the test for using downloader->conn again
reuse_connection(conn, iri) ==
    /\ conn # NoConn
    /\ conn.host = iri.host
    /\ conn.scheme = iri.scheme
    /\ conn.port = resolv_port(iri)

\* http_close(&downloader->conn)
http_close(h) ==
    [h EXCEPT !.conn = NoConn, !.open = IF h.conn # NoConn THEN @ - 1 ELSE @]

\* downloader->conn = http_open(iri), which may fail
http_open(h, iri, ok) ==
    IF ok
    THEN [h EXCEPT !.conn = [scheme |-> iri.scheme, host |-> iri.host,
                             port |-> resolv_port(iri)],
                   !.open = @ + 1,
                   !.last.peak = IF h.open + 1 > @ THEN h.open + 1 ELSE @]
    ELSE h

\* http_get 1796-1811: the connection the request for iri is sent on
http_connect(h, iri, ok) ==
    LET asked == [h EXCEPT !.last = [before |-> h.conn, target |-> iri,
                                     reused |-> reuse_connection(h.conn, iri),
                                     peak |-> h.open]]
    IN IF reuse_connection(h.conn, iri) THEN asked
       ELSE http_open(http_close(asked), iri, ok)

\* http_get 1938-1948: without a response, and when the server does not keep the
\* connection alive, the connection is closed
http_request(h, iri, ok, response, keep_alive) ==
    LET c == http_connect(h, iri, ok) IN
    IF c.conn = NoConn THEN c
    ELSE IF ~response \/ ~keep_alive THEN http_close(c)
    ELSE c

\* http_free_response: the downloader holds no response any more
http_free_response(h) ==
    [h EXCEPT !.last = NoRequest, !.auth = NoAuth, !.linked = NoLinked, !.answer = ""]

\* a file: whether it exists, its bytes, its modification time ("now" when a write
\* set it, else the Last-Modified value set_file_mtime gave it)
NoFile == [exists |-> FALSE, data |-> <<>>, mtime |-> ""]
File(data, mtime) == [exists |-> TRUE, data |-> data, mtime |-> mtime]

\* job->local_filename and config.output_document of the bounded runs; a path is a
\* name and the number of its suffix (name is <<name, 0>>, name.1 is <<name, 1>>)
LocalFile == "f"
OutputDocument == "o"
FilePaths == {LocalFile, OutputDocument} \X (0..MaxFnum)

\* no response handled yet
NoHandled == [code |-> 0, body |-> <<>>, last_modified |-> "", range_sent |-> -1,
              range_got |-> -1, since_sent |-> FALSE, outcome |-> "", status |-> 0,
              parsed |-> FALSE]
NoFs == [files |-> [p \in FilePaths |-> NoFile], handled |-> 0, last |-> NoHandled]

\* the threads that resolve host names, and the (host, port) keys they ask for
Resolvers == 1..NumResolvers
ResolveKeys == {"a", "b"}
\* max = 3 of the loop of wget_tcp_resolve
ResolveMax == 3

\* a thread outside wget_tcp_resolve; caching is tcp->caching of the wget_tcp_t it uses
NoResolve(caching) ==
    [pc |-> "idle", key |-> "", caching |-> caching, tries |-> 0, rc |-> "",
     locks |-> 0, unlocks |-> 0, touched |-> FALSE, calls |-> 0, result |-> ""]
\* resolve_mutex free (holder 0), the cache empty, no platform resolution done yet
DnsOf(caching) ==
    [mutex |-> 0, cache |-> [k \in ResolveKeys |-> FALSE],
     lookups |-> [k \in ResolveKeys |-> 0], bad_unlock |-> FALSE,
     th |-> [t \in Resolvers |-> NoResolve(caching[t])]]
NoDns == DnsOf([t \in Resolvers |-> FALSE])

\* no function called yet
NoCall == [fn |-> "", args |-> <<>>, result |-> <<>>]

\* no set_exit_status call under way
NoReport == [status |-> 0, seen |-> 0, ret |-> ""]

\* the state of main at line 749: seeds queued, input thread and downloaders started
InitProgram(sc) ==
    /\ config = sc.config /\ env = sc.env
    /\ \E seeds \in {q \in SeedSeqs(sc.env.seed_urls) : Len(q) <= sc.env.urls} :
         LET st == add_seeds([EmptyStore EXCEPT !.scope.domains = sc.config.domains],
                             seeds) IN
         /\ blacklist = st.blacklist
         /\ hosts = st.hosts
         /\ queue = st.queue
         /\ nextId = st.nextId
         /\ enq = st.enq
         /\ refused = st.refused
         /\ scope = st.scope
         /\ rejected = st.rejected
    /\ cond_test = CondTestInit
    /\ http = [w \in Workers |-> NoHttp]
    /\ terminate = FALSE
    /\ input_tid = config.input
    /\ inputCount = 0
    /\ main_mutex = "none"
    /\ mainpc = "lock"
    /\ pc = [w \in Workers |-> IF w <= config.num_threads THEN "loop" ELSE "done"]
    /\ wjob = [w \in Workers |-> 0]
    /\ wpart = [w \in Workers |-> 0]
    /\ validations = {}
    /\ links = [w \in Workers |-> <<>>]
    /\ tries = [w \in Workers |-> 0]
    /\ known_urls = {}
    /\ exit_status = 0
    /\ ses = [w \in Workers |-> NoReport]
    /\ quota = 0
    /\ written = 0
    /\ reported = {}
    /\ gets = {}

\* no file handling and no call of the network library is looked at
InitOf(sc) == InitProgram(sc) /\ fs = NoFs /\ call = NoCall /\ dns = NoDns

admission_vars == <<blacklist, hosts, queue, nextId, enq, refused, scope, rejected>>
worker_vars == <<pc, wjob, wpart, links, tries, ses>>
save_vars == <<quota, written>>
history_vars == <<reported, gets, validations>>

\* ------------------------------------------------------------------ main (mget.c 749-782)

\* mget_thread_mutex_lock(&main_mutex), line 749
MLock ==
    /\ mainpc = "lock" /\ main_mutex = "none"
    /\ main_mutex' = "main" /\ mainpc' = "check"
    /\ UNCHANGED <<config, env, cond_test, fs, call, dns, http, admission_vars, terminate, input_tid, inputCount, worker_vars,
                   known_urls, exit_status, save_vars, history_vars>>

\* queue_empty()
queue_empty == queue = <<>>

\* the loop condition and the two breaks, lines 750-759
main_leaves ==
    \/ terminate
    \/ (queue_empty /\ ~input_tid)
    \/ (config.quota # 0 /\ quota >= config.quota)

MCheck ==
    /\ mainpc = "check"
    /\ mainpc' = IF main_leaves THEN "stop" ELSE "towait"
    /\ UNCHANGED <<config, env, cond_test, fs, call, dns, http, admission_vars, terminate, input_tid, inputCount, main_mutex,
                   worker_vars, known_urls, exit_status, save_vars, history_vars>>

\* mget_thread_cond_wait(&main_cond, &main_mutex), line 762: releases the mutex and blocks
MWait ==
    /\ mainpc = "towait"
    /\ mainpc' = "wait" /\ main_mutex' = "none"
    /\ UNCHANGED <<config, env, cond_test, fs, call, dns, http, admission_vars, terminate, input_tid, inputCount, worker_vars,
                   known_urls, exit_status, save_vars, history_vars>>

\* the return from cond_wait after a signal: the mutex is taken again
MWoken ==
    /\ mainpc = "woken" /\ main_mutex = "none"
    /\ mainpc' = "check" /\ main_mutex' = "main"
    /\ UNCHANGED <<config, env, cond_test, fs, call, dns, http, admission_vars, terminate, input_tid, inputCount, worker_vars,
                   known_urls, exit_status, save_vars, history_vars>>

\* lines 764-771: unlock, terminate = 1, signal worker_cond
MStop ==
    /\ mainpc = "stop"
    /\ mainpc' = "join" /\ main_mutex' = "none" /\ terminate' = TRUE
    /\ \E wake \in SignalTargets(TRUE) : pc' = pc_after(0, "", wake)
    /\ UNCHANGED <<config, env, cond_test, fs, call, dns, http, admission_vars, input_tid, inputCount, wjob, wpart, links, tries, ses,
                   known_urls, exit_status, save_vars, history_vars>>

\* lines 773-782: join every downloader
MJoin ==
    /\ mainpc = "join" /\ \A w \in Workers : pc[w] = "done"
    /\ mainpc' = "done"
    /\ UNCHANGED <<config, env, cond_test, fs, call, dns, http, admission_vars, terminate, input_tid, inputCount, main_mutex,
                   worker_vars, known_urls, exit_status, save_vars, history_vars>>

\* nop(SIGTERM), lines 559-563
SigTerm ==
    /\ ~terminate /\ mainpc # "done"
    /\ terminate' = TRUE
    /\ UNCHANGED <<config, env, cond_test, fs, call, dns, http, admission_vars, input_tid, inputCount, main_mutex, mainpc,
                   worker_vars, known_urls, exit_status, save_vars, history_vars>>

\* ------------------------------------------------------------------ input_thread (810-825)

\* one line of standard input: add_url_to_queue, then signal worker_cond
InLine(raw) ==
    /\ input_tid /\ inputCount < MaxInput
    /\ inputCount' = inputCount + 1
    /\ put_store(add_url_to_queue(Store, raw))
    /\ \E wake \in SignalTargets(TRUE) : pc' = pc_after(0, "", wake)
    /\ UNCHANGED <<config, env, cond_test, fs, call, dns, http, terminate, input_tid, main_mutex, mainpc, wjob, wpart, links, tries, ses,
                   known_urls, exit_status, save_vars, history_vars>>

\* end of input: input_tid = 0
InEOF ==
    /\ input_tid
    /\ input_tid' = FALSE
    /\ UNCHANGED <<config, env, cond_test, fs, call, dns, http, admission_vars, terminate, inputCount, main_mutex, mainpc,
                   worker_vars, known_urls, exit_status, save_vars, history_vars>>

\* ------------------------------------------------------------------ downloader_thread (827-1129)

\* while (!terminate), line 839
WTest(w) ==
    /\ pc[w] = "loop"
    /\ pc' = [pc EXCEPT ![w] = IF terminate THEN "exit" ELSE "get"]
    /\ UNCHANGED <<config, env, cond_test, fs, call, dns, http, admission_vars, terminate, input_tid, inputCount, main_mutex, mainpc,
                   wjob, wpart, links, tries, ses, known_urls, exit_status, save_vars, history_vars>>

\* line 858: a HEAD request comes first (--spider is not modelled)
head_first(job) == config.chunk_size # 0 /\ ~job.has_deferred

\* lines 840-847: lock main_mutex, queue_get; with a Job unlock, without one go to wait
WGet(w) ==
    /\ pc[w] = "get" /\ main_mutex = "none"
    /\ LET got == queue_get(queue) IN
       IF got.job = 0
       THEN /\ main_mutex' = "worker"
            /\ pc' = [pc EXCEPT ![w] = "towait"]
            /\ UNCHANGED <<queue, wjob, wpart, tries>>
       ELSE /\ queue' = IF got.part # 0
                        THEN [queue EXCEPT ![job_idx(queue, got.job)].parts[got.part].inuse = TRUE]
                        ELSE [queue EXCEPT ![job_idx(queue, got.job)].inuse = TRUE]
            /\ wjob' = [wjob EXCEPT ![w] = got.job]
            /\ wpart' = [wpart EXCEPT ![w] = got.part]
            /\ tries' = [tries EXCEPT ![w] = 0]
            /\ pc' = [pc EXCEPT ![w] = IF got.part # 0 THEN "part"
                                       ELSE IF head_first(job_of(queue, got.job)) THEN "head"
                                       ELSE "fetch"]
            /\ UNCHANGED main_mutex
    /\ UNCHANGED <<config, env, cond_test, fs, call, dns, http, blacklist, hosts, nextId, enq, refused, scope, rejected, terminate, input_tid,
                   inputCount, mainpc, links, ses, known_urls, exit_status, save_vars, history_vars>>

\* mget_thread_cond_wait(&worker_cond, &main_mutex), line 843
WWait(w) ==
    /\ pc[w] = "towait"
    /\ pc' = [pc EXCEPT ![w] = "waiting"] /\ main_mutex' = "none"
    /\ UNCHANGED <<config, env, cond_test, fs, call, dns, http, admission_vars, terminate, input_tid, inputCount, mainpc,
                   wjob, wpart, links, tries, ses, known_urls, exit_status, save_vars, history_vars>>

\* the return from cond_wait (mutex taken again), unlock and continue, lines 844-845
WWoken(w) ==
    /\ pc[w] = "woken" /\ main_mutex = "none"
    /\ pc' = [pc EXCEPT ![w] = "loop"]
    /\ UNCHANGED <<config, env, cond_test, fs, call, dns, http, admission_vars, terminate, input_tid, inputCount, main_mutex, mainpc,
                   wjob, wpart, links, tries, ses, known_urls, exit_status, save_vars, history_vars>>

\* variant: the comparison of line 1575 with > in place of >=
quota_reached_late(old, nbytes) == old > config.quota

\* quota_modify_read(nbytes) >= config.quota, line 1575: the value compared is the old one
quota_reached(old, nbytes) == old >= config.quota

\* the links a document yields; known says whether known_urls filters them
doc_links(ls, sitemap, known) ==
    [i \in 1..Len(ls) |-> [url |-> ls[i], sitemap |-> sitemap, known |-> known]]

\* iri->uri, character by character; "http://" and "https://" are written h/ and s/
RECURSIVE path_chars(_)
path_chars(p) == IF p = <<>> THEN <<>> ELSE <<"/", Head(p)>> \o path_chars(Tail(p))
uri(iri) == <<(IF iri.scheme = "https" THEN "s" ELSE "h"), "/", iri.host>> \o path_chars(iri.path)

\* tolower, for the letters of the bounded URLs
tolower(c) == IF c = "A" THEN "a" ELSE c

\* strncasecmp(s1, s2, n) == 0, for strings of n characters at least
strncasecmp_equal(s1, s2, n) == \A i \in 1..n : tolower(s1[i]) = tolower(s2[i])

\* lines 1321-1324 and 1417-1420: strrchr(base->uri, '/') + 1, or strlen(base->uri)
\* without a slash
sitemap_baselen(base) ==
    LET slashes == {i \in 1..Len(base) : base[i] = "/"}
    IN IF slashes # {} THEN CHOOSE i \in slashes : \A j \in slashes : j <= i
       ELSE Len(base)

\* lines 1334 and 1426: a URL of a sitemap is 'not followed (not matching sitemap
\* location)' when baselen && (len <= baselen || !strncasecmp(url, base->uri, baselen))
sitemap_location_skips(base, url) ==
    LET baselen == sitemap_baselen(base)
    IN baselen # 0 /\ (Len(url) <= baselen \/ strncasecmp_equal(url, base, baselen))

\* ------------------------------------------------------------------ libwget/net.c

\* the address families of tcp->family and tcp->preferred_family
Families == {"AF_UNSPEC", "AF_INET", "AF_INET6"}
\* struct addrinfo: the family and the address
Addrs == [ai_family : {"AF_INET", "AF_INET6"}, ip : 1..2]
\* getaddrinfo with hints.ai_family = family (lines 236-253): a list of addresses, of
\* that family only unless it is AF_UNSPEC
AddrLists(family) ==
    UNION {[1..n -> {a \in Addrs : family \in {"AF_UNSPEC", a.ai_family}}] : n \in 1..MaxAddrs}

\* the loop of _wget_sort_preferred, lines 202-222: ai goes to the tail of one of
\* the two lists
RECURSIVE sort_preferred_loop(_, _, _, _)
sort_preferred_loop(ai, preferred_family, preferred, unpreferred) ==
    IF ai = <<>> THEN [preferred |-> preferred, unpreferred |-> unpreferred]
    ELSE IF Head(ai).ai_family = preferred_family
    THEN sort_preferred_loop(Tail(ai), preferred_family, Append(preferred, Head(ai)),
                             unpreferred)
    ELSE sort_preferred_loop(Tail(ai), preferred_family, preferred,
                             Append(unpreferred, Head(ai)))

\* variant: the preferred addresses are moved to the front one by one
RECURSIVE wget_sort_preferred_front(_, _)
wget_sort_preferred_front(addrinfo, preferred_family) ==
    IF addrinfo = <<>> THEN <<>>
    ELSE LET rest == wget_sort_preferred_front(Tail(addrinfo), preferred_family) IN
         IF Head(addrinfo).ai_family = preferred_family
         THEN <<Head(addrinfo)>> \o rest
         ELSE Append(rest, Head(addrinfo))

\* _wget_sort_preferred, lines 197-231: the loop, then preferred + not preferred
wget_sort_preferred(addrinfo, preferred_family) ==
    LET r == sort_preferred_loop(addrinfo, preferred_family, <<>>, <<>>)
    IN IF r.preferred # <<>> THEN r.preferred \o r.unpreferred ELSE r.unpreferred

\* wget_tcp_resolve, lines 352-387, for an answer of getaddrinfo (no cache)
wget_tcp_resolve(family, preferred_family, addrinfo) ==
    IF family = "AF_UNSPEC" /\ preferred_family # "AF_UNSPEC"
    THEN wget_sort_preferred(addrinfo, preferred_family)
    ELSE addrinfo

\* tcp->timeout: wait indefinitely, do not wait, wait some milliseconds
Timeouts == {-1, 0, 1}

\* wget_ready_2_read and wget_ready_2_write: 1 when the socket is ready, 0 when the
\* timeout elapsed first, -1 on error
ready_2_transfer(timeout) == IF timeout > 0 THEN {1, 0, -1} ELSE {1, -1}

\* send on the non-blocking socket (line 914): bytes taken, or -1 with errno
SendResults(count) ==
    {[n |-> n, errno |-> ""] : n \in 1..count}
    \cup {[n |-> -1, errno |-> e] : e \in {"EAGAIN", "EPIPE"}}

\* wget_tcp_write at the head of its loop (line 1196)
tcp_write_entered(timeout, count) ==
    [pc |-> "loop", rc |-> 0, count |-> count, nwritten |-> 0, sends |-> 0, waits |-> 0,
     errno |-> ""]

\* one turn of while (count) in wget_tcp_write, lines 1196-1249 (no TCP Fast Open):
\* send; all bytes taken: return nwritten; some taken: go on with the rest; an errno
\* other than EAGAIN, ENOTCONN, EINPROGRESS: return -1; else, if tcp->timeout is not
\* 0, wget_ready_2_write and return its result unless the socket is ready; then the
\* next turn.  With count 0 the loop is left and 0 returned.
tcp_write_loop(timeout, w, sent, ready) ==
    IF w.count = 0 THEN [w EXCEPT !.pc = "returned", !.rc = 0]
    ELSE IF sent.n >= w.count
    THEN [w EXCEPT !.pc = "returned", !.rc = w.nwritten + sent.n,
                   !.nwritten = @ + sent.n, !.sends = @ + 1, !.errno = sent.errno]
    ELSE IF sent.n >= 0
    THEN [w EXCEPT !.nwritten = @ + sent.n, !.count = @ - sent.n, !.sends = @ + 1,
                   !.errno = sent.errno]
    ELSE IF sent.errno # "EAGAIN"
    THEN [w EXCEPT !.pc = "returned", !.rc = -1, !.sends = @ + 1, !.errno = sent.errno]
    ELSE IF timeout # 0 /\ ready <= 0
    THEN [w EXCEPT !.pc = "returned", !.rc = ready, !.sends = @ + 1, !.waits = @ + 1,
                   !.errno = sent.errno]
    ELSE [w EXCEPT !.sends = @ + 1, !.waits = @ + (IF timeout # 0 THEN 1 ELSE 0),
                   !.errno = sent.errno]

\* wget_tcp_read without TLS, lines 1146-1157: wget_ready_2_read unless tcp->timeout
\* is 0, then recvfrom on the non-blocking socket
tcp_read(timeout, ready, received) ==
    IF timeout # 0 /\ ready <= 0
    THEN [pc |-> "returned", rc |-> ready, waits |-> 1, recvs |-> 0]
    ELSE [pc |-> "returned", rc |-> received, waits |-> IF timeout # 0 THEN 1 ELSE 0,
          recvs |-> 1]

sitemap_skips(base, raw) ==
    raw \in IRIs /\ sitemap_location_skips(uri(base), uri(raw))

\* lines 1050-1082: what a 200 answer gives to link discovery
discovered(job, r) ==
    IF ~(config.recursive /\ (config.level = 0 \/ job.level < config.level)) THEN <<>>
    ELSE IF r.kind = "html" THEN doc_links(r.links, FALSE, TRUE)
    ELSE IF job.sitemap
    THEN doc_links(SelectSeq(r.links, LAMBDA u : ~sitemap_skips(job.iri, u)), FALSE, FALSE)
    ELSE IF job.has_deferred THEN doc_links(r.links, TRUE, FALSE)
    ELSE <<>>

\* line 1072: job->host->robots = mget_robots_parse(body)
robots_loaded(job, r) ==
    /\ config.recursive /\ (config.level = 0 \/ job.level < config.level)
    /\ r.kind = "plain" /\ ~job.sitemap /\ job.has_deferred

\* a call of set_exit_status(status) by downloader w, which continues at ret after it
report(w, status, ret) ==
    IF status = 0 THEN ses
    ELSE [ses EXCEPT ![w] = [status |-> status, seen |-> 0, ret |-> ret]]
after_report(status, ret) == IF status # 0 THEN "ses_r" ELSE ret
after_handling(ls) == IF ls = <<>> THEN "ready" ELSE "discover"

\* variant: the downloader keeps the Job whose parts are still to be fetched
job_kept(wj, w, pending) == wj

\* job = NULL at lines 929 and 1036, when job_validate_file has found parts to fetch:
\* downloader w goes to ready without a Job, so that queue_del(job) removes nothing
job_not_removed_yet(wj, w, pending) == IF pending THEN [wj EXCEPT ![w] = 0] ELSE wj

\* one http_get of the download loop (937-948) and the handling of its answer (950-1110)
WFetch(w) ==
    /\ pc[w] = "fetch"
    /\ LET jid == wjob[w]
           job == job_of(queue, jid)
       IN \E r \in (IF connects(job.url0) THEN Answers ELSE {Refused}) :
          \E cs \in challenges_of(r) :
          /\ gets' = IF r.kind \in {"none", "refused"} THEN gets ELSE gets \cup {job.url0}
          /\ IF r.kind = "refused"
             THEN \* no connection and no fallback: network error, exit status 4
                  /\ ses' = report(w, 4, "ready")
                  /\ pc' = [pc EXCEPT ![w] = after_report(4, "ready")]
                  /\ UNCHANGED <<admission_vars, wjob, links, tries, save_vars, validations>>
             ELSE IF r.kind = "none"
             THEN \* no response: next attempt, or give up after the third
                  /\ tries' = [tries EXCEPT ![w] = @ + 1]
                  /\ pc' = [pc EXCEPT ![w] = IF tries[w] + 1 >= MaxTries THEN "ready" ELSE "fetch"]
                  /\ UNCHANGED <<admission_vars, wjob, links, ses, save_vars, validations>>
             ELSE IF r.kind = "auth"
             THEN \* code 401: http_get asks again with credentials, once; a 401 as the
                  \* final response is neither saved nor reported
                  /\ pc' = [pc EXCEPT ![w] = IF auth_retry(http[w], r, cs) THEN "fetch"
                                             ELSE "ready"]
                  /\ UNCHANGED <<admission_vars, wjob, links, tries, ses, save_vars, validations>>
             ELSE IF r.kind = "mlinks"
             THEN \* a response with Link headers, lines 974-1008
                  \E ub1 \in UB, ub2 \in UB :
                  LET st == links_admission(Store, jid, r, ub1, ub2) IN
                  /\ put_store(st)
                  /\ \E wake \in SignalTargets(st.signal) :
                       pc' = IF st.crash THEN crashed ELSE pc_after(w, "ready", wake)
                  /\ UNCHANGED <<wjob, links, tries, ses, save_vars, validations>>
             ELSE IF r.kind = "redirect"
             THEN \* http_get 1967-1981: add_url(job, location, URL_FLG_REDIRECTION)
                  \E ub \in UB :
                  LET st == add_url(Store, jid, r.loc, TRUE, FALSE, ub) IN
                  /\ put_store(st)
                  /\ \E wake \in SignalTargets(st.signal) :
                       pc' = IF st.crash THEN crashed ELSE pc_after(w, "ready", wake)
                  /\ UNCHANGED <<wjob, links, tries, ses, save_vars, validations>>
             ELSE IF r.kind = "metalink"
             THEN \* lines 1010-1042: a description without size or mirrors removes the Job;
                  \* else job_validate_file creates the parts, and the Job stays in the
                  \* queue (job = NULL) unless the file is complete already
                  IF r.size <= 0 \/ r.mirrors = 0
                  THEN /\ pc' = [pc EXCEPT ![w] = "ready"]
                       /\ UNCHANGED <<admission_vars, wjob, links, tries, ses, save_vars,
                                      validations>>
                  ELSE \E bad \in SUBSET (1..r.size) :
                       /\ queue' = IF bad = {} THEN queue
                                   ELSE [queue EXCEPT ![job_idx(queue, jid)].mirrors = r.mirrors,
                                                      ![job_idx(queue, jid)].size = r.size,
                                                      ![job_idx(queue, jid)].file =
                                                           empty_file(r.size),
                                                      ![job_idx(queue, jid)].parts =
                                                           create_parts(metalink_pieces(r.size),
                                                                        r.size, bad)]
                       /\ validations' = IF bad = {} THEN validations \cup {<<jid, "load">>}
                                        ELSE validations
                       /\ wjob' = job_not_removed_yet(wjob, w, bad # {})
                       /\ \E wake \in SignalTargets(bad # {}) : pc' = pc_after(w, "ready", wake)
                       /\ UNCHANGED <<blacklist, hosts, nextId, enq, refused, scope, rejected, links, tries, ses,
                                      save_vars>>
             ELSE IF r.kind = "forbidden"
             THEN \* code 403: none of the branches of lines 1044-1110
                  /\ pc' = [pc EXCEPT ![w] = "ready"]
                  /\ UNCHANGED <<admission_vars, wjob, links, tries, ses, save_vars, validations>>
             ELSE IF r.kind = "notfound"
             THEN \* lines 1107-1109
                  LET status == IF job.has_deferred THEN 0 ELSE 8 IN
                  /\ ses' = report(w, status, "ready")
                  /\ pc' = [pc EXCEPT ![w] = after_report(status, "ready")]
                  /\ UNCHANGED <<admission_vars, wjob, links, tries, save_vars, validations>>
             ELSE \* code 200: save_file, then link discovery
                  \E io_ok \in {TRUE, ~env.disk_fails} :
                  LET blocked == config.quota # 0 /\ quota_reached(quota, r.len)
                      status == IF ~blocked /\ ~io_ok THEN 3 ELSE 0
                      ls == discovered(job, r)
                  IN
                  /\ quota' = IF config.quota # 0 THEN quota + r.len ELSE quota
                  /\ written' = IF config.quota # 0 /\ ~blocked /\ io_ok
                                THEN written + r.len ELSE written
                  /\ hosts' = IF robots_loaded(job, r)
                              THEN [hosts EXCEPT ![job.host].loaded = TRUE,
                                                 ![job.host].paths = r.rules]
                              ELSE hosts
                  /\ links' = [links EXCEPT ![w] = ls]
                  /\ ses' = report(w, status, after_handling(ls))
                  /\ pc' = [pc EXCEPT ![w] = after_report(status, after_handling(ls))]
                  /\ UNCHANGED <<blacklist, queue, nextId, enq, refused, scope, rejected, wjob, tries, validations>>
          /\ \E keep_alive \in KeepAlives :
               http' = [http EXCEPT ![w] =
                          [http_challenges(http_request(@, request_iri(job.url0),
                                                        r.kind # "refused",
                                                        r.kind \notin {"none", "refused"},
                                                        keep_alive),
                                           http[w].challenges, auth_retry(http[w], r, cs), cs)
                             EXCEPT !.linked =
                                IF r.kind = "mlinks"
                                THEN [rels |-> r.rels, loc |-> r.loc, known |-> blacklist,
                                      jobs |-> jobs_added(queue', nextId, nextId')]
                                ELSE NoLinked,
                                    !.answer = r.kind]]
    /\ mainpc' = IF pc'[w] = "crashed" THEN "crashed" ELSE mainpc
    /\ UNCHANGED <<config, env, cond_test, fs, call, dns, terminate, input_tid, inputCount, main_mutex, wpart,
                   known_urls, exit_status, reported>>

\* the status codes of the answers to HEAD requests
head_codes == {200} \cup (IF "notfound" \in env.answers THEN {404} ELSE {})

\* one HEAD request of the loop at 861-866 and the handling of its answer (868-932):
\* no answer leads to the next attempt or, after the third, to ready; an answer with a
\* Content-Length above config.chunk_size makes the Job a download in pieces from the
\* one mirror job->iri, which stays in the queue (job = NULL) unless job_validate_file
\* finds the file complete; any other answer is followed by the GET loop; code 404
\* sets exit status 8 first
WHead(w) ==
    /\ pc[w] = "head"
    /\ LET jid == wjob[w]
           i == job_idx(queue, jid)
       IN \/ /\ "none" \in env.answers
             /\ http' = [http EXCEPT ![w] = http_request(@, request_iri(queue[i].url0),
                                                        TRUE, FALSE, FALSE)]
             /\ tries' = [tries EXCEPT ![w] = IF tries[w] + 1 >= MaxTries THEN 0 ELSE @ + 1]
             /\ pc' = [pc EXCEPT ![w] = IF tries[w] + 1 >= MaxTries THEN "ready" ELSE "head"]
             /\ UNCHANGED <<queue, wjob, validations, ses>>
          \/ \E content_length \in 1..MaxLength, code \in head_codes :
                LET status == IF code = 404 THEN 8 ELSE 0 IN
                /\ \E keep_alive \in KeepAlives :
                     http' = [http EXCEPT ![w] = http_request(@, request_iri(queue[i].url0),
                                                              TRUE, TRUE, keep_alive)]
                /\ ses' = report(w, status, IF content_length > config.chunk_size
                                            THEN "ready" ELSE "fetch")
                /\ IF content_length > config.chunk_size
                   THEN \E bad \in SUBSET (1..Len(chunk_pieces(content_length,
                                                              config.chunk_size))) :
                        /\ queue' = IF bad = {} THEN queue
                                    ELSE [queue EXCEPT
                                            ![i].mirrors = 1,
                                            ![i].size = content_length,
                                            ![i].file = empty_file(content_length),
                                            ![i].parts =
                                               create_parts(chunk_pieces(content_length,
                                                                         config.chunk_size),
                                                            content_length, bad)]
                        /\ validations' = IF bad = {} THEN validations \cup {<<jid, "load">>}
                                         ELSE validations
                        /\ wjob' = job_not_removed_yet(wjob, w, bad # {})
                        /\ tries' = [tries EXCEPT ![w] = 0]
                        /\ \E wake \in SignalTargets(bad # {}) :
                             pc' = pc_after(w, after_report(status, "ready"), wake)
                   ELSE /\ tries' = [tries EXCEPT ![w] = 0]
                        /\ pc' = [pc EXCEPT ![w] = after_report(status, "fetch")]
                        /\ UNCHANGED <<queue, wjob, validations>>
    /\ UNCHANGED <<config, env, cond_test, fs, call, dns, blacklist, hosts, nextId, enq, refused, scope, rejected, terminate,
                   input_tid, inputCount, main_mutex, mainpc, wpart, links, known_urls,
                   exit_status, save_vars, reported, gets>>

\* variant: set_exit_status leaves exit_status as it is
exit_status_kept(seen, status, cur) ==
    cur

\* set_exit_status, lines 116-120: the new value, from the value the caller read
exit_status_after(seen, status, cur) ==
    IF seen # 0
    THEN (IF status < seen THEN status ELSE cur)
    ELSE status

\* set_exit_status reads exit_status ...
SesRead(w) ==
    /\ pc[w] = "ses_r"
    /\ ses' = [ses EXCEPT ![w].seen = exit_status]
    /\ pc' = [pc EXCEPT ![w] = "ses_w"]
    /\ UNCHANGED <<config, env, cond_test, fs, call, dns, http, admission_vars, terminate, input_tid, inputCount, main_mutex, mainpc,
                   wjob, wpart, links, tries, known_urls, exit_status, save_vars, history_vars>>

\* ... and writes it, with no lock around the two
SesWrite(w) ==
    /\ pc[w] = "ses_w"
    /\ exit_status' = exit_status_after(ses[w].seen, ses[w].status, exit_status)
    /\ ses' = [ses EXCEPT ![w] = NoReport]
    /\ reported' = reported \cup {ses[w].status}
    /\ pc' = [pc EXCEPT ![w] = ses[w].ret]
    /\ UNCHANGED <<config, env, cond_test, fs, call, dns, http, admission_vars, terminate, input_tid, inputCount, main_mutex, mainpc,
                   wjob, wpart, links, tries, known_urls, save_vars, gets, validations>>

\* the string html_url->url of a link to url in the document at base, which line 1209
\* puts into known_urls before line 1226 makes it absolute: the documents of the
\* bounded runs write a link to their own server without scheme and host
link_token(base, url) ==
    IF url \in IRIs /\ url.scheme = base.scheme /\ url.host = base.host
    THEN [url EXCEPT !.scheme = "", !.host = ""]
    ELSE url

\* one turn of the loops of html_parse (1204-1236), sitemap_parse_text (1417-1437) and
\* of the robots.txt sitemaps (1074-1078): one URL goes to add_url
WDiscover(w) ==
    /\ pc[w] = "discover" /\ links[w] # <<>>
    /\ \E ub \in UB :
       LET l == Head(links[w])
           token == link_token(job_of(queue, wjob[w]).url0, l.url)
           skip == l.known /\ token \in known_urls
           st == IF skip THEN Store ELSE add_url(Store, wjob[w], l.url, FALSE, l.sitemap, ub)
       IN /\ known_urls' = IF l.known THEN known_urls \cup {token} ELSE known_urls
          /\ put_store(st)
          /\ links' = [links EXCEPT ![w] = Tail(@)]
          /\ \E wake \in SignalTargets(st.signal) :
               pc' = IF st.crash THEN crashed
                     ELSE pc_after(w, IF Tail(links[w]) = <<>> THEN "ready" ELSE "discover",
                                   wake)
    /\ mainpc' = IF pc'[w] = "crashed" THEN "crashed" ELSE mainpc
    /\ UNCHANGED <<config, env, cond_test, fs, call, dns, http, terminate, input_tid, inputCount, main_mutex, wjob, wpart, tries,
                   ses, exit_status, save_vars, history_vars>>

\* ready: http_free_response, queue_del(job), signal main_cond, lines 1113-1119
WReady(w) ==
    /\ pc[w] = "ready"
    /\ http' = [http EXCEPT ![w] = http_free_response(@)]
    /\ put_store(queue_del(Store, wjob[w]))
    /\ mainpc' = main_signalled
    /\ pc' = [pc EXCEPT ![w] = "loop"]
    /\ wjob' = [wjob EXCEPT ![w] = 0]
    /\ tries' = [tries EXCEPT ![w] = 0]
    /\ UNCHANGED <<config, env, cond_test, fs, call, dns, terminate, input_tid, inputCount, main_mutex, wpart, links, ses,
                   known_urls, exit_status, save_vars, history_vars>>

\* variant: the test of the parts is left out
all_done_untested(j) == TRUE

\* lines 1757-1765 of download_part: every part of the Job is done
all_done(j) == \A k \in 1..Len(j.parts) : j.parts[k].done

\* one turn of the loop of download_part (1711-1753): the next mirror is asked for the
\* part; a good answer is written at part->position; open failing reports status 3
WPartTry(w) ==
    /\ pc[w] = "part" /\ has_job(queue, wjob[w])
    /\ LET i == job_idx(queue, wjob[w])
           j == queue[i]
       IN /\ tries[w] < j.mirrors /\ ~j.parts[wpart[w]].done
          /\ tries' = [tries EXCEPT ![w] = @ + 1]
          /\ \E keep_alive \in KeepAlives :
               http' = [http EXCEPT ![w] = http_request(@, mirror_iri(j, w, tries[w]),
                                                        TRUE, TRUE, keep_alive)]
          /\ \E outcome \in {"ok", "corrupt", "bad"}
                               \cup (IF env.disk_fails THEN {"noopen"} ELSE {}) :
               LET status == IF outcome = "noopen" THEN 3 ELSE 0 IN
               /\ queue' = IF outcome \in {"ok", "corrupt"}
                           THEN [queue EXCEPT ![i].parts[wpart[w]].done = TRUE,
                                              ![i].parts[wpart[w]].good = (outcome = "ok"),
                                              ![i].file = pwrite(@, wpart[w],
                                                                 j.parts[wpart[w]].length,
                                                                 j.parts[wpart[w]].position)]
                           ELSE queue
               /\ ses' = report(w, status, "part")
               /\ pc' = [pc EXCEPT ![w] = after_report(status, "part")]
    /\ UNCHANGED <<config, env, cond_test, fs, call, dns, blacklist, hosts, nextId, enq, refused, scope, rejected, terminate, input_tid,
                   inputCount, main_mutex, mainpc, wjob, wpart, links, known_urls, exit_status,
                   save_vars, history_vars>>

\* variant: a part that failed stays in use
part_kept(parts, k) == parts

\* line 1783: part->inuse = 0
part_released(parts, k) == [parts EXCEPT ![k].inuse = FALSE]

\* after the loop (1755-1784): a part that is done leads to the test of all parts, a
\* part that failed is handed back
WPartEnd(w) ==
    /\ pc[w] = "part"
    /\ http' = [http EXCEPT ![w] = http_free_response(@)]
    /\ tries' = [tries EXCEPT ![w] = 0]
    /\ wpart' = [wpart EXCEPT ![w] = 0]
    /\ IF ~has_job(queue, wjob[w])
       THEN \* the Job was freed by another downloader: part->done is read from freed
            \* memory, and the downloader goes on or the process ends
            /\ \E alive \in BOOLEAN :
                  pc' = IF alive THEN [pc EXCEPT ![w] = "loop"] ELSE crashed
            /\ wjob' = [wjob EXCEPT ![w] = 0]
            /\ UNCHANGED queue
       ELSE LET i == job_idx(queue, wjob[w])
                j == queue[i]
                check == j.parts[wpart[w]].done /\ all_done(j)
            IN /\ ~(tries[w] < j.mirrors /\ ~j.parts[wpart[w]].done)
               /\ pc' = [pc EXCEPT ![w] = IF check THEN "validate" ELSE "loop"]
               /\ wjob' = IF check THEN wjob ELSE [wjob EXCEPT ![w] = 0]
               /\ queue' = IF j.parts[wpart[w]].done THEN queue
                           ELSE [queue EXCEPT ![i].parts = part_released(@, wpart[w])]
    /\ mainpc' = IF pc'[w] = "crashed" THEN "crashed" ELSE mainpc
    /\ UNCHANGED <<config, env, cond_test, fs, call, dns, blacklist, hosts, nextId, enq, refused, scope, rejected, terminate, input_tid,
                   inputCount, main_mutex, links, ses, known_urls,
                   exit_status, save_vars, history_vars>>

\* lines 1770-1779: with a valid file queue_del(job) and the signal to main_cond
part_completion(st, jid, valid) ==
    IF valid THEN [queue_del(st, jid) EXCEPT !.signal = TRUE] ELSE st

\* the end of download_part once all parts were seen done
WValidate(w) ==
    /\ pc[w] = "validate"
    /\ wjob' = [wjob EXCEPT ![w] = 0]
    /\ IF ~has_job(queue, wjob[w])
       THEN \* the Job was freed by another downloader: job_validate_file and queue_del
            \* work on freed memory, and the downloader goes on or the process ends
            /\ \E alive \in BOOLEAN :
                  /\ pc' = IF alive THEN [pc EXCEPT ![w] = "loop"] ELSE crashed
                  /\ mainpc' = IF alive THEN mainpc ELSE "crashed"
            /\ UNCHANGED <<admission_vars, validations>>
       ELSE LET jid == wjob[w]
                valid == job_validate_file(job_of(queue, jid))
                st == part_completion(Store, jid, valid)
            IN /\ pc' = [pc EXCEPT ![w] = "loop"]
               /\ validations' = IF valid THEN validations \cup {<<jid, "parts">>}
                                ELSE validations
               /\ put_store(st)
               /\ mainpc' = IF st.signal THEN main_signalled ELSE mainpc
    /\ UNCHANGED <<config, env, cond_test, fs, call, dns, http, terminate, input_tid, inputCount, main_mutex, wpart, links,
                   tries, ses, known_urls, exit_status, save_vars, reported, gets>>

\* lines 1122-1128: unlock of main_mutex by a thread that does not hold it (the mutex
\* stays as it is, or is released under its holder), http_close, signal worker_cond
WExit(w) ==
    /\ pc[w] = "exit"
    /\ main_mutex' \in {main_mutex, "none"}
    /\ http' = [http EXCEPT ![w] = http_close(@)]
    /\ \E wake \in SignalTargets(TRUE) : pc' = pc_after(w, "done", wake)
    /\ UNCHANGED <<config, env, cond_test, fs, call, dns, admission_vars, terminate, input_tid, inputCount, mainpc,
                   wjob, wpart, links, tries, ses, known_urls, exit_status, save_vars, history_vars>>

program_vars == <<config, env, admission_vars, terminate, input_tid, inputCount, main_mutex,
                  mainpc, worker_vars, known_urls, exit_status, save_vars, history_vars, http>>

\* ------------------------------------------------------------------ saving to files

\* open(path, O_WRONLY | flag | O_CREAT): with O_EXCL an existing file fails the call
\* (EEXIST); with O_TRUNC the file is emptied; a missing file is created
open(files, path, flag) ==
    IF flag = "O_EXCL" /\ files[path].exists THEN [fd |-> FALSE, files |-> files]
    ELSE IF flag = "O_TRUNC" \/ ~files[path].exists
    THEN [fd |-> TRUE, files |-> [files EXCEPT ![path] = File(<<>>, "now")]]
    ELSE [fd |-> TRUE, files |-> files]

\* write(fd, resp->body->data, resp->body->length) on a descriptor opened with or
\* without O_APPEND: the bytes follow those of the file (a file opened with O_TRUNC or
\* O_EXCL is empty); then set_file_mtime, lines 1658-1659
write(files, path, flag, resp) ==
    [files EXCEPT ![path] =
        File(files[path].data \o resp.body,
             IF flag \in {"O_TRUNC", "O_EXCL"} /\ resp.last_modified # ""
             THEN resp.last_modified ELSE "now")]

\* variant: with clobber set the file is opened with O_TRUNC
save_flag_truncates(fname, oflag) ==
    LET flag == IF fname = config.output_document THEN "O_APPEND" ELSE oflag IN
    IF config.timestamping
    THEN [flag |-> IF oflag = "O_TRUNC" THEN "O_TRUNC" ELSE flag, multiple |-> FALSE]
    ELSE IF ~config.clobber \/ (config.recursive /\ config.directories)
    THEN [flag |-> IF oflag = "O_TRUNC" /\ ~(config.recursive /\ config.directories)
                   THEN "O_EXCL" ELSE flag,
          multiple |-> FALSE]
    ELSE [flag |-> flag, multiple |-> FALSE]

\* _save_file 1598 and 1626-1639: the flag of the open call, and whether name.N is
\* tried when the file exists
save_flag(fname, oflag) ==
    LET flag == IF fname = config.output_document THEN "O_APPEND" ELSE oflag IN
    IF config.timestamping
    THEN [flag |-> IF oflag = "O_TRUNC" THEN "O_TRUNC" ELSE flag, multiple |-> FALSE]
    ELSE IF ~config.clobber \/ (config.recursive /\ config.directories)
    THEN [flag |-> IF oflag = "O_TRUNC" /\ ~(config.recursive /\ config.directories)
                   THEN "O_EXCL" ELSE flag,
          multiple |-> FALSE]
    ELSE IF flag # "O_APPEND"
    THEN [flag |-> "O_EXCL", multiple |-> TRUE]
    ELSE [flag |-> flag, multiple |-> FALSE]

\* the loop of lines 1643-1673, for (fnum = 0; fnum < 999;): an open descriptor is
\* written to; an open that failed with EEXIST is followed by the open of name.N
\* when multiple is set
RECURSIVE save_loop(_, _, _, _, _, _)
save_loop(files, fd, fname, fnum, sf, resp) ==
    IF fnum >= MaxFnum THEN [files |-> files, fd |-> fd, fnum |-> fnum, written |-> FALSE]
    ELSE IF fd
    THEN [files |-> write(files, <<fname, fnum>>, sf.flag, resp), fd |-> fd,
          fnum |-> fnum, written |-> TRUE]
    ELSE IF sf.multiple
    THEN LET o == open(files, <<fname, fnum + 1>>, sf.flag) IN
         save_loop(o.files, o.fd, fname, fnum + 1, sf, resp)
    ELSE [files |-> files, fd |-> fd, fnum |-> fnum, written |-> FALSE]

\* _save_file(resp, fname, flag), lines 1560-1689, for a run without quota,
\* --save-headers and --adjust-extension, whose output document is not "-", and whose
\* writes do not fail: the files afterwards, what happened, and the status passed to
\* set_exit_status (0 for no call)
save_file_flag(files, resp, fname, oflag) ==
    IF config.spider \/ fname = ""
    THEN [files |-> files, outcome |-> "skipped", status |-> 0]
    ELSE IF fname = config.output_document /\ config.delete_after
    THEN [files |-> files, outcome |-> "skipped", status |-> 0]
    ELSE LET sf == save_flag(fname, oflag)
             o == open(files, <<fname, 0>>, sf.flag)
             l == save_loop(o.files, o.fd, fname, 0, sf, resp)
         IN IF l.written
            THEN [files |-> l.files,
                  outcome |-> IF sf.flag = "O_APPEND" THEN "appended" ELSE "saved",
                  status |-> 0]
            ELSE IF l.fd
            THEN [files |-> l.files, outcome |-> "unwritten", status |-> 0]
            ELSE IF l.fnum < MaxFnum
            THEN [files |-> l.files, outcome |-> "already there", status |-> 0]
            ELSE [files |-> l.files, outcome |-> "failed", status |-> 3]

\* save_file and append_file, lines 1691-1699
save_file(files, resp, fname) == save_file_flag(files, resp, fname, "O_TRUNC")
append_file(files, resp, fname) == save_file_flag(files, resp, fname, "O_APPEND")

\* get_file_size and get_file_mtime, lines 1520-1540: 0 for a missing file
get_file_size(files, fname) ==
    IF files[<<fname, 0>>].exists THEN Len(files[<<fname, 0>>].data) ELSE 0
get_file_mtime(files, fname) ==
    IF files[<<fname, 0>>].exists THEN files[<<fname, 0>>].mtime ELSE ""

\* the resource the servers of these runs hold under the URL of the Job, and the
\* bodies of their answers with code 200
Resource == <<1, 2>>
Bodies == {Resource, <<3>>}
Dates == {"", "t1"}

\* http_get 1821-1837: the Range header (the size of the local file, -1 for none) and
\* whether If-Modified-Since is sent
range_sent(files) ==
    IF config.continue_download THEN get_file_size(files, LocalFile) ELSE -1
since_sent(files) == config.timestamping /\ get_file_mtime(files, LocalFile) # ""

\* what the servers answer: the body with code 200; a part of the resource from any
\* offset with code 206, when a range was asked for; 304 when If-Modified-Since was
\* sent; 404
FileResponses(files) ==
    {[code |-> 200, body |-> b, last_modified |-> d, range_got |-> -1] :
        b \in Bodies, d \in Dates}
    \cup (IF range_sent(files) >= 0
          THEN {[code |-> 206, body |-> SubSeq(Resource, from + 1, Len(Resource)),
                 last_modified |-> "", range_got |-> from] : from \in 0..Len(Resource)}
          ELSE {})
    \cup (IF since_sent(files)
          THEN {[code |-> 304, body |-> <<>>, last_modified |-> "", range_got |-> -1]}
          ELSE {})
    \cup {[code |-> 404, body |-> <<>>, last_modified |-> "", range_got |-> -1]}

\* variant: a 304 is handled like a 200
handle_response_304_saved(files, resp) ==
    LET fname == IF config.output_document # "" THEN config.output_document ELSE LocalFile
        none == [files |-> files, outcome |-> "", status |-> 0, parsed |-> FALSE]
    IN IF resp.code \in {200, 304}
       THEN save_file(files, resp, fname) @@ none
       ELSE none

\* downloader_thread 1044-1110 for a response without Link headers: 200 is saved,
\* 206 is appended under --continue, 304 under --timestamping has the local file
\* parsed in a recursive run, 404 sets the exit status
handle_response(files, resp) ==
    LET fname == IF config.output_document # "" THEN config.output_document ELSE LocalFile
        none == [files |-> files, outcome |-> "", status |-> 0, parsed |-> FALSE]
    IN IF resp.code = 200
       THEN save_file(files, resp, fname) @@ none
       ELSE IF resp.code = 206 /\ config.continue_download
       THEN append_file(files, resp, fname) @@ none
       ELSE IF resp.code = 304 /\ config.timestamping
       THEN [none EXCEPT !.parsed = config.recursive /\ files[<<LocalFile, 0>>].exists]
       ELSE IF resp.code = 404
       THEN [none EXCEPT !.status = 8]
       ELSE none

\* one request of a downloader and the handling of its response, as far as files go
FHandle ==
    /\ fs.handled < MaxSaves
    /\ \E resp \in FileResponses(fs.files) :
         LET h == handle_response(fs.files, resp) IN
         fs' = [files |-> h.files, handled |-> fs.handled + 1,
                last |-> [code |-> resp.code, body |-> resp.body,
                          last_modified |-> resp.last_modified,
                          range_sent |-> range_sent(fs.files),
                          range_got |-> resp.range_got,
                          since_sent |-> since_sent(fs.files),
                          outcome |-> h.outcome, status |-> h.status,
                          parsed |-> h.parsed]]
    /\ UNCHANGED <<program_vars, cond_test, call, dns>>

\* ------------------------------------------------------------------ unit-tests/test-cond.c

engine_vars == <<program_vars, fs, call, dns>>

\* wget_thread_mutex_lock(resolve_mutex) by thread t, once the mutex is free
resolve_lock(d, t) == [d EXCEPT !.mutex = t, !.th[t].locks = @ + 1]
\* wget_thread_mutex_unlock(resolve_mutex) by thread t; an unlock by a thread that
\* does not hold the mutex is recorded
resolve_unlock(d, t) ==
    IF d.mutex = t THEN [d EXCEPT !.mutex = 0, !.th[t].unlocks = @ + 1]
    ELSE [d EXCEPT !.bad_unlock = TRUE, !.th[t].unlocks = @ + 1]
\* return from wget_tcp_resolve
resolve_return(d, t, result) == [d EXCEPT !.th[t].pc = "returned", !.th[t].result = result]

\* a thread calls wget_tcp_resolve(tcp, host, port)
DnsCall(t) ==
    /\ dns.th[t].pc \in {"idle", "returned"} /\ dns.th[t].calls < MaxResolves
    /\ \E key \in ResolveKeys :
         dns' = [dns EXCEPT !.th[t] = [NoResolve(@.caching) EXCEPT
                                         !.pc = "top", !.key = key, !.calls = dns.th[t].calls + 1]]
    /\ UNCHANGED <<program_vars, cond_test, fs, call>>

\* the head of the loop, lines 336-339: after max turns the loop is left; with caching
\* a cached address list is returned at once
DnsCacheGet(t) ==
    /\ dns.th[t].pc = "top"
    /\ dns' = IF dns.th[t].tries >= ResolveMax THEN [dns EXCEPT !.th[t].pc = "after"]
              ELSE IF ~dns.th[t].caching THEN [dns EXCEPT !.th[t].pc = "resolve"]
              ELSE IF dns.cache[dns.th[t].key]
              THEN resolve_return([dns EXCEPT !.th[t].touched = TRUE], t, "cached")
              ELSE [dns EXCEPT !.th[t].pc = "lock", !.th[t].touched = TRUE]
    /\ UNCHANGED <<program_vars, cond_test, fs, call>>

\* variant: no second look at the cache under the mutex
cache_not_rechecked(d, t) == FALSE

\* line 345: wget_dns_cache_get(host, port) under resolve_mutex
cache_rechecked(d, t) == d.cache[d.th[t].key]

\* lines 342-348: lock resolve_mutex, look at the cache again, unlock and return on a hit
DnsLock(t) ==
    /\ dns.th[t].pc = "lock" /\ dns.mutex = 0
    /\ LET d == resolve_lock(dns, t) IN
       dns' = IF cache_rechecked(d, t) THEN resolve_return(resolve_unlock(d, t), t, "cached")
              ELSE [d EXCEPT !.th[t].pc = "resolve"]
    /\ UNCHANGED <<program_vars, cond_test, fs, call>>

\* line 353: the call of _wget_tcp_resolve, which calls getaddrinfo
DnsResolve(t) ==
    /\ dns.th[t].pc = "resolve"
    /\ dns' = [dns EXCEPT !.th[t].pc = "resolving"]
    /\ UNCHANGED <<program_vars, cond_test, fs, call>>

\* variant: the mutex is kept over the sleep
kept_for_sleep(d, t) == d

\* lines 358-359: if (tcp->caching) wget_thread_mutex_unlock(resolve_mutex)
unlocked_for_sleep(d, t) == IF d.th[t].caching THEN resolve_unlock(d, t) ELSE d

\* lines 353-361: getaddrinfo returns; success and every failure but EAI_AGAIN leave
\* the loop, EAI_AGAIN before the last turn unlocks and sleeps
resolve_answered(d, t, rc) ==
    LET d1 == [d EXCEPT !.th[t].rc = rc,
                        !.lookups[d.th[t].key] = IF rc = "ok" THEN @ + 1 ELSE @]
    IN IF rc # "EAI_AGAIN" THEN [d1 EXCEPT !.th[t].pc = "after"]
       ELSE IF d.th[t].tries < ResolveMax - 1
       THEN [unlocked_for_sleep(d1, t) EXCEPT !.th[t].pc = "sleep"]
       ELSE [d1 EXCEPT !.th[t].pc = "after", !.th[t].tries = @ + 1]

DnsAnswer(t) ==
    /\ dns.th[t].pc = "resolving"
    /\ \E rc \in {"ok", "EAI_AGAIN", "EAI_FAIL"} : dns' = resolve_answered(dns, t, rc)
    /\ UNCHANGED <<program_vars, cond_test, fs, call>>

\* line 360: wget_millisleep(100), then the next turn of the loop
DnsSleep(t) ==
    /\ dns.th[t].pc = "sleep"
    /\ dns' = [dns EXCEPT !.th[t].pc = "top", !.th[t].tries = @ + 1]
    /\ UNCHANGED <<program_vars, cond_test, fs, call>>

\* lines 371-384 and 408-417: a failure unlocks and returns NULL; a success puts the
\* list into the cache, unlocks and returns it (both under tcp->caching only)
resolve_finished(d, t) ==
    IF d.th[t].rc # "ok"
    THEN resolve_return(IF d.th[t].caching THEN resolve_unlock(d, t) ELSE d, t, "failed")
    ELSE IF d.th[t].caching
    THEN resolve_return(resolve_unlock([d EXCEPT !.cache[d.th[t].key] = TRUE,
                                                 !.th[t].touched = TRUE], t),
                        t, "resolved")
    ELSE resolve_return(d, t, "resolved")

DnsAfter(t) ==
    /\ dns.th[t].pc = "after"
    /\ dns' = resolve_finished(dns, t)
    /\ UNCHANGED <<program_vars, cond_test, fs, call>>

\* what a server answers to one request of http_get: nothing; a final code; 401 with
\* or without challenges; 302 with Link and Digest headers; a code 1xx or 3xx with a
\* Location header or without
GetUrls == {U("a", <<"x">>), U("b", <<"x">>)}
GetAnswers ==
    {[kind |-> k, location |-> NoIri] : k \in {"none", "final", "challenge", "401", "metalink"}}
    \cup {[kind |-> "interim", location |-> l] : l \in GetUrls \cup {NoIri, BadUrl}}

\* the state of a call of http_get(iri, part, ...) at while (iri), line 1795
http_get_entered(iri, part) ==
    [pc |-> "loop", iri |-> iri, part |-> part, challenges |-> FALSE, log |-> <<>>]

\* one turn of the loop of http_get (1795-1985) with the connection open: the request
\* for g.iri is answered with r
http_get_turn(g, r) ==
    LET g1 == [g EXCEPT !.log = Append(@, [iri |-> g.iri, kind |-> r.kind,
                                          location |-> r.location])]
        returned == [g1 EXCEPT !.pc = "returned"]
    IN IF r.kind = "none" THEN returned                               \* 1938-1941
       ELSE IF r.kind = "metalink" THEN returned                      \* 1950-1951
       ELSE IF r.kind \in {"challenge", "401"} /\ ~g.challenges      \* 1953-1961
       THEN (IF r.kind = "challenge" THEN [g1 EXCEPT !.challenges = TRUE] ELSE returned)
       ELSE IF r.kind \in {"final", "challenge", "401"} THEN returned \* 1963-1965
       ELSE IF r.location = NoIri THEN g1                             \* 1967, 1984
       ELSE IF ~g.part THEN returned                                  \* 1977-1980
       ELSE IF iri_parse(r.location) = NoIri THEN returned            \* 1985, 1795
       ELSE [g1 EXCEPT !.iri = iri_parse(r.location)]                 \* 1981-1986

\* a call of http_get for a Job (part = FALSE) or for a part of a metalink Job
HttpGet ==
    /\ call = NoCall
    /\ \E iri \in GetUrls, part \in BOOLEAN :
         call' = [fn |-> "http_get", args |-> <<iri, part>>,
                  result |-> http_get_entered(iri, part)]
    /\ UNCHANGED <<program_vars, cond_test, fs, dns>>

\* the next request of the call and its answer
HttpGetTurn ==
    /\ call.fn = "http_get" /\ call.result.pc = "loop"
    /\ Len(call.result.log) < MaxRequests
    /\ \E r \in GetAnswers : call' = [call EXCEPT !.result = http_get_turn(@, r)]
    /\ UNCHANGED <<program_vars, cond_test, fs, dns>>

\* one call of wget_tcp_resolve that getaddrinfo answers with a list of addresses
TcpResolve ==
    /\ call = NoCall
    /\ \E family \in Families, preferred_family \in Families :
       \E addrinfo \in AddrLists(family) :
         call' = [fn |-> "wget_tcp_resolve",
                  args |-> <<family, preferred_family, addrinfo>>,
                  result |-> wget_tcp_resolve(family, preferred_family, addrinfo)]
    /\ UNCHANGED <<program_vars, cond_test, fs, dns>>

\* a call of wget_tcp_write(tcp, buf, count) on a connection without TLS
TcpWrite ==
    /\ call = NoCall
    /\ \E timeout \in Timeouts, count \in 0..MaxCount :
         call' = [fn |-> "wget_tcp_write", args |-> <<timeout, count>>,
                  result |-> tcp_write_entered(timeout, count)]
    /\ UNCHANGED <<program_vars, cond_test, fs, dns>>

\* one turn of the loop of wget_tcp_write
TcpWriteLoop ==
    /\ call.fn = "wget_tcp_write" /\ call.result.pc = "loop"
    /\ call.result.sends < MaxSends
    /\ \E sent \in SendResults(call.result.count), ready \in ready_2_transfer(call.args[1]) :
         call' = [call EXCEPT !.result = tcp_write_loop(call.args[1], @, sent, ready)]
    /\ UNCHANGED <<program_vars, cond_test, fs, dns>>

\* a call of wget_tcp_read(tcp, buf, count) on a connection without TLS: recvfrom
\* gives bytes, 0 at the end of the stream, or -1
TcpRead ==
    /\ call = NoCall
    /\ \E timeout \in Timeouts, count \in 1..MaxCount :
       \E ready \in ready_2_transfer(timeout), received \in -1..count :
         call' = [fn |-> "wget_tcp_read", args |-> <<timeout, count>>,
                  result |-> tcp_read(timeout, ready, received)]
    /\ UNCHANGED <<program_vars, cond_test, fs, dns>>

\* the URLs of the bounded sitemaps: letters of both cases and slashes
UriChars == {"a", "A", "/"}
Uris == UNION {[1..n -> UriChars] : n \in 1..MaxUriLen}

\* one turn of the loop of sitemap_parse_xml (1329-1346, known_urls empty) or of
\* sitemap_parse_text (1423-1433) for the sitemap at base: the URL is reported as not
\* matching the sitemap location, or goes to add_url
SitemapUrl ==
    /\ call = NoCall
    /\ \E fn \in {"sitemap_parse_xml", "sitemap_parse_text"}, base \in Uris, url \in Uris :
         call' = [fn |-> fn, args |-> <<base, url>>,
                  result |-> [add_url |-> ~sitemap_location_skips(base, url)]]
    /\ UNCHANGED <<program_vars, cond_test, fs, dns>>

\* a synchronising call of thread t that publishes its writes (unlock, the start of a
\* thread, the return of a thread)
release(ct, t) ==
    [ct EXCEPT !.mem = IF ct.dirty[t] THEN ct.cache[t] ELSE @, !.dirty[t] = FALSE]

\* a synchronising call of thread t that makes published writes visible to it (lock,
\* the first step of a started thread, join)
acquire(ct, t) ==
    [ct EXCEPT !.cache[t] = IF ct.dirty[t] THEN @ ELSE ct.mem]

\* cond_value = v by thread t
write_value(ct, t, v) == [ct EXCEPT !.cache[t] = v, !.dirty[t] = TRUE]

\* a write reaches memory, or a thread's view follows memory, at any time
Propagate(t) ==
    /\ cond_test.dirty[t]
    /\ cond_test' = release(cond_test, t)
    /\ UNCHANGED engine_vars
Refresh(t) ==
    /\ ~cond_test.dirty[t] /\ cond_test.cache[t] # cond_test.mem
    /\ cond_test' = acquire(cond_test, t)
    /\ UNCHANGED engine_vars

\* variant: the thread waits without looking at cond_value
must_wait_always(value) ==
    TRUE

\* line 35: while (!cond_value)
must_wait(value) == value = 0

\* main 76-80: without thread support the test is skipped with exit code 77
TMain ==
    /\ cond_test.mpc = "main"
    /\ \E support \in BOOLEAN :
         cond_test' = IF support THEN [cond_test EXCEPT !.mpc = "start"]
                      ELSE [cond_test EXCEPT !.mpc = "done", !.exit_code = "77"]
    /\ UNCHANGED engine_vars

\* test_cond line 49: cond_value = 0
TInit ==
    /\ cond_test.mpc = "start"
    /\ cond_test' = [write_value(cond_test, "main", 0) EXCEPT !.mpc = "init"]
    /\ UNCHANGED engine_vars

\* lines 51-52: the mutex and the condition are initialised
TInitSync ==
    /\ cond_test.mpc = "init"
    /\ cond_test' = [cond_test EXCEPT !.mpc = "create", !.lockcond = "none"]
    /\ UNCHANGED engine_vars

\* line 54: the thread is started
TStart ==
    /\ cond_test.mpc = "create"
    /\ cond_test' = [acquire(release(cond_test, "main"), "thread") EXCEPT
                       !.mpc = "sleep", !.tpc = "lock"]
    /\ UNCHANGED engine_vars

\* lines 56-59: sleep(remain) returns 0 when the time has passed ...
TSleep ==
    /\ cond_test.mpc = "sleep"
    /\ cond_test' = [cond_test EXCEPT !.remain = 0, !.mpc = "lock"]
    /\ UNCHANGED engine_vars

\* ... or the time left when a signal handler interrupted it, and the loop goes on
TSleepInterrupted ==
    /\ cond_test.mpc = "sleep"
    /\ \E left \in 1..cond_test.remain :
         cond_test' = [cond_test EXCEPT !.remain = left, !.mpc = "slept"]
    /\ UNCHANGED engine_vars

\* line 59: while (remain)
TSleepAgain ==
    /\ cond_test.mpc = "slept"
    /\ cond_test' = [cond_test EXCEPT !.mpc = "sleep"]
    /\ UNCHANGED engine_vars

\* line 62: wget_thread_mutex_lock(lockcond) takes the free mutex, or blocks ...
TLock ==
    /\ cond_test.mpc = "lock"
    /\ cond_test' = IF cond_test.lockcond = "none"
                    THEN [acquire(cond_test, "main") EXCEPT !.lockcond = "main", !.mpc = "set"]
                    ELSE [cond_test EXCEPT !.mpc = "locking"]
    /\ UNCHANGED engine_vars

\* ... until the mutex is free
TLocked ==
    /\ cond_test.mpc = "locking" /\ cond_test.lockcond = "none"
    /\ cond_test' = [acquire(cond_test, "main") EXCEPT !.lockcond = "main", !.mpc = "set"]
    /\ UNCHANGED engine_vars

\* line 63: cond_value = 1
TSet ==
    /\ cond_test.mpc = "set"
    /\ cond_test' = [write_value(cond_test, "main", 1) EXCEPT !.mpc = "signal"]
    /\ UNCHANGED engine_vars

\* line 64: wget_thread_cond_signal(condtest): a thread blocked on the condition is
\* released, a signal with no thread waiting is lost
TSignal ==
    /\ cond_test.mpc = "signal"
    /\ cond_test' = [cond_test EXCEPT
                       !.mpc = "unlock",
                       !.signalled = (cond_test.tpc = "blocked"),
                       !.tpc = IF @ = "blocked" THEN "woken" ELSE @]
    /\ UNCHANGED engine_vars

\* line 65: wget_thread_mutex_unlock(lockcond)
TUnlock ==
    /\ cond_test.mpc = "unlock"
    /\ cond_test' = [release(cond_test, "main") EXCEPT !.lockcond = "none", !.mpc = "join"]
    /\ UNCHANGED engine_vars

\* line 67: wget_thread_join(&thread) returns once the thread has returned
TJoin ==
    /\ cond_test.mpc = "join" /\ cond_test.tpc = "returned"
    /\ cond_test' = [acquire(cond_test, "main") EXCEPT !.mpc = "destroy"]
    /\ UNCHANGED engine_vars

\* lines 69-70: the condition and the mutex are destroyed
TDestroy ==
    /\ cond_test.mpc = "destroy"
    /\ cond_test' = [cond_test EXCEPT !.mpc = "check", !.lockcond = "destroyed"]
    /\ UNCHANGED engine_vars

\* lines 72-73 and main 82: exit(1) unless cond_value is 2, else return 0
TCheck ==
    /\ cond_test.mpc = "check"
    /\ cond_test' = [cond_test EXCEPT
                       !.mpc = "done",
                       !.exit_code = IF cond_test.cache["main"] # 2 THEN "1" ELSE "0"]
    /\ UNCHANGED engine_vars

\* cond_routine line 34: wget_thread_mutex_lock(lockcond) takes the free mutex, or
\* blocks ...
RLock ==
    /\ cond_test.tpc = "lock"
    /\ cond_test' = IF cond_test.lockcond = "none"
                    THEN [acquire(cond_test, "thread") EXCEPT
                            !.lockcond = "thread", !.tpc = "test"]
                    ELSE [cond_test EXCEPT !.tpc = "locking"]
    /\ UNCHANGED engine_vars

\* ... until the mutex is free
RLocked ==
    /\ cond_test.tpc = "locking" /\ cond_test.lockcond = "none"
    /\ cond_test' = [acquire(cond_test, "thread") EXCEPT
                       !.lockcond = "thread", !.tpc = "test"]
    /\ UNCHANGED engine_vars

\* line 35: the test of the loop
RTest ==
    /\ cond_test.tpc = "test"
    /\ cond_test' = [cond_test EXCEPT
                       !.tpc = IF must_wait(cond_test.cache["thread"])
                               THEN "wait" ELSE "unlock"]
    /\ UNCHANGED engine_vars

\* line 36: wget_thread_cond_wait(condtest, lockcond, 0) releases the mutex and blocks,
\* in one step
RWait ==
    /\ cond_test.tpc = "wait"
    /\ cond_test' = [release(cond_test, "thread") EXCEPT
                       !.lockcond = "none", !.tpc = "blocked", !.waited = TRUE]
    /\ UNCHANGED engine_vars

\* a wait may end without a signal (spurious wakeup)
RSpurious ==
    /\ cond_test.tpc = "blocked"
    /\ cond_test' = [cond_test EXCEPT !.tpc = "woken"]
    /\ UNCHANGED engine_vars

\* the return from the wait: the mutex is taken again, back to the test
RWoken ==
    /\ cond_test.tpc = "woken" /\ cond_test.lockcond = "none"
    /\ cond_test' = [acquire(cond_test, "thread") EXCEPT
                       !.lockcond = "thread", !.tpc = "test"]
    /\ UNCHANGED engine_vars

\* line 37: wget_thread_mutex_unlock(lockcond)
RUnlock ==
    /\ cond_test.tpc = "unlock"
    /\ cond_test' = [release(cond_test, "thread") EXCEPT
                       !.lockcond = "none", !.tpc = "write"]
    /\ UNCHANGED engine_vars

\* line 39: cond_value = 2
RWrite ==
    /\ cond_test.tpc = "write"
    /\ cond_test' = [write_value(cond_test, "thread", 2) EXCEPT !.tpc = "return"]
    /\ UNCHANGED engine_vars

\* line 41: return NULL
RReturn ==
    /\ cond_test.tpc = "return"
    /\ cond_test' = [release(cond_test, "thread") EXCEPT !.tpc = "returned"]
    /\ UNCHANGED engine_vars

\* ------------------------------------------------------------------ specifications

Main == MLock \/ MCheck \/ MWait \/ MWoken \/ MStop \/ MJoin
Input == (\E raw \in SeedUrls : InLine(raw)) \/ InEOF
Engine(w) == WTest(w) \/ WGet(w) \/ WWait(w) \/ WWoken(w) \/ WFetch(w) \/ WReady(w) \/ WExit(w)
Status(w) == SesRead(w) \/ SesWrite(w)

\* the supervisor's loop with one downloader, standard input and SIGTERM
InitSupervisor == InitOf(ScSupervisor)
NextSupervisor == Main \/ Input \/ SigTerm \/ (\E w \in Workers : Engine(w))
SpecSupervisor == InitSupervisor /\ [][NextSupervisor]_vars

\* two downloaders reporting failures
InitStatus == InitOf(ScStatus)
NextStatus == Main \/ (\E w \in Workers : Engine(w) \/ Status(w))
SpecStatus == InitStatus /\ [][NextStatus]_vars

\* recursive retrieval with redirections
InitRecursive == InitOf(ScRecursive)
NextRecursive == Main \/ (\E w \in Workers : Engine(w) \/ WDiscover(w))
SpecRecursive == InitRecursive /\ [][NextRecursive]_vars

\* the parts of a metalink download
Parts(w) == WPartTry(w) \/ WPartEnd(w) \/ WValidate(w)

\* metalink downloads by two downloaders
InitMetalink == InitOf(ScMetalink)
NextMetalink == Main \/ (\E w \in Workers : Engine(w) \/ Parts(w))
SpecMetalink == InitMetalink /\ [][NextMetalink]_vars

\* two downloaders, plain and metalink Jobs, requests that fail
InitRemoval == InitOf(ScRemoval)
NextRemoval == Main \/ (\E w \in Workers : Engine(w) \/ Status(w) \/ Parts(w))
SpecRemoval == InitRemoval /\ [][NextRemoval]_vars

\* recursive retrieval of documents with relative links
InitTokens == InitOf(ScTokens)
NextTokens == Main \/ (\E w \in Workers : Engine(w) \/ WDiscover(w))
SpecTokens == InitTokens /\ [][NextTokens]_vars

\* recursive retrieval with robots.txt
InitRobots == InitOf(ScRobots)
NextRobots == Main \/ Input \/ (\E w \in Workers : Engine(w) \/ Status(w) \/ WDiscover(w))
SpecRobots == InitRobots /\ [][NextRobots]_vars

\* retrieval with --https-only
InitHttps == InitOf(ScHttps)
NextHttps == Main \/ (\E w \in Workers : Engine(w) \/ WDiscover(w))
SpecHttps == InitHttps /\ [][NextHttps]_vars

\* retrieval without --span-hosts
InitScope ==
    \E recursive \in BOOLEAN, domains \in {{}, {"b"}}, exclude \in {{}, {"b"}} :
        InitOf(ScScope(recursive, domains, exclude))
NextScope == Main \/ (\E w \in Workers : Engine(w) \/ Status(w) \/ WDiscover(w))
SpecScope == InitScope /\ [][NextScope]_vars

\* recursive retrieval with --no-parent
InitNoParent == InitOf(ScNoParent)
NextNoParent == Main \/ (\E w \in Workers : Engine(w) \/ WDiscover(w))
SpecNoParent == InitNoParent /\ [][NextNoParent]_vars

\* downloads in pieces of config.chunk_size bytes by one or two downloaders
InitChunk == \E threads \in 1..NumWorkers : InitOf(ScChunk(threads))
NextChunk == Main \/ (\E w \in Workers : Engine(w) \/ WHead(w) \/ Parts(w))
SpecChunk == InitChunk /\ [][NextChunk]_vars

\* downloads in pieces under fair scheduling of main and of the downloaders
FairChunk ==
    /\ SpecChunk
    /\ WF_vars(Main)
    /\ \A w \in Workers : WF_vars(Engine(w) \/ WHead(w) \/ Parts(w))

\* downloads from servers that may not answer, with --tries set
InitTries == \E t \in 1..TriesCfg : InitOf(ScTries(t))
NextTries == Main \/ (\E w \in Workers : Engine(w))
SpecTries == InitTries /\ [][NextTries]_vars

\* requests to servers that speak plain HTTP only, under each mode of --https-enforce
InitEnforce == \E mode \in {"none", "soft", "hard"} : InitOf(ScEnforce(mode))
NextEnforce == Main \/ (\E w \in Workers : Engine(w) \/ Status(w))
SpecEnforce == InitEnforce /\ [][NextEnforce]_vars

InitConn == InitOf(ScConn)
NextConn == Main \/ (\E w \in Workers : Engine(w))
SpecConn == InitConn /\ [][NextConn]_vars

InitAuth == InitOf(ScAuth)
NextAuth == Main \/ (\E w \in Workers : Engine(w))
SpecAuth == InitAuth /\ [][NextAuth]_vars

InitErrors == InitOf(ScErrors)
NextErrors == Main \/ (\E w \in Workers : Engine(w) \/ Status(w) \/ WDiscover(w))
SpecErrors == InitErrors /\ [][NextErrors]_vars

\* the location test of the sitemap parsers on its own
InitSitemap == InitOf(ScCondTest)
NextSitemap == SitemapUrl
SpecSitemap == InitSitemap /\ [][NextSitemap]_vars

\* the resolver on its own
InitResolve == InitOf(ScCondTest)
NextResolve == TcpResolve
SpecResolve == InitResolve /\ [][NextResolve]_vars

\* reading from and writing to a connection
InitGet == InitOf(ScCondTest)
NextGet == HttpGet \/ HttpGetTurn
SpecGet == InitGet /\ [][NextGet]_vars

InitTcp == InitOf(ScCondTest)
NextTcp == TcpWrite \/ TcpWriteLoop \/ TcpRead
SpecTcp == InitTcp /\ [][NextTcp]_vars

\* the end of a run of one downloader or of several; every thread that can take a
\* step takes one in the end
InitShutdown == \E threads \in 1..NumWorkers : InitOf(ScShutdown(threads))
NextShutdown == Main \/ (\E w \in Workers : Engine(w))
SpecShutdown == InitShutdown /\ [][NextShutdown]_vars
FairShutdown ==
    /\ SpecShutdown
    /\ WF_vars(Main)
    /\ \A w \in Workers : WF_vars(Engine(w))

\* threads in wget_tcp_resolve, each with its tcp->caching
InitDns ==
    /\ InitProgram(ScCondTest) /\ fs = NoFs /\ call = NoCall
    /\ \E caching \in [Resolvers -> BOOLEAN] : dns = DnsOf(caching)
NextDns ==
    \E t \in Resolvers : \/ DnsCall(t) \/ DnsCacheGet(t) \/ DnsLock(t) \/ DnsResolve(t)
                         \/ DnsAnswer(t) \/ DnsSleep(t) \/ DnsAfter(t)
SpecDns == InitDns /\ [][NextDns]_vars

InitLinks == InitOf(ScLinks)
NextLinks == Main \/ (\E w \in Workers : Engine(w))
SpecLinks == InitLinks /\ [][NextLinks]_vars

\* the files a run finds: the local file missing or holding the first byte of the
\* resource, the files name.1 .. name.k, the output document missing or not
InitialFiles ==
    {[p \in FilePaths |->
        IF p = <<LocalFile, 0>> THEN (IF part THEN File(<<1>>, "t1") ELSE NoFile)
        ELSE IF p[1] = LocalFile /\ p[2] <= k THEN File(<<9>>, "t1")
        ELSE IF p = <<OutputDocument, 0>> /\ out THEN File(<<9>>, "t1")
        ELSE NoFile] : part \in BOOLEAN, k \in 0..MaxFnum, out \in BOOLEAN}

InitSave ==
    /\ \E recursive \in BOOLEAN, directories \in BOOLEAN, clobber \in BOOLEAN,
          timestamping \in BOOLEAN, continue_download \in BOOLEAN,
          output_document \in {"", OutputDocument} :
         InitProgram(ScSave(recursive, directories, clobber, timestamping,
                            continue_download, output_document))
    /\ \E files \in InitialFiles : fs = [NoFs EXCEPT !.files = files]
    /\ call = NoCall /\ dns = NoDns
NextSave == FHandle
SpecSave == InitSave /\ [][NextSave]_vars

\* unit-tests/test-cond.c: test_cond and cond_routine
TestCond == TMain \/ TInit \/ TInitSync \/ TStart \/ TDestroy \/ TSleep \/ TSleepInterrupted \/ TSleepAgain \/ TLock \/ TLocked
            \/ TSet \/ TSignal \/ TUnlock \/ TJoin \/ TCheck
CondRoutine == RLock \/ RLocked \/ RTest \/ RWait \/ RSpurious \/ RWoken \/ RUnlock \/ RWrite \/ RReturn
Memory == \E t \in CondThreads : Propagate(t) \/ Refresh(t)
InitCondTest == InitOf(ScCondTest)
NextCondTest == TestCond \/ CondRoutine \/ Memory
SpecCondTest == InitCondTest /\ [][NextCondTest]_vars

\* the two threads under fair scheduling: every step a thread can take is taken in the
\* end, except that sleep need not be interrupted and waits need not end spuriously
FairCondTest ==
    /\ SpecCondTest
    /\ WF_vars(TMain \/ TInit \/ TInitSync \/ TStart \/ TDestroy \/ TSleep \/ TSleepAgain \/ TLock \/ TLocked \/ TSet \/ TSignal
               \/ TUnlock \/ TJoin \/ TCheck)
    /\ WF_vars(RLock \/ RLocked \/ RTest \/ RWait \/ RWoken \/ RUnlock \/ RWrite \/ RReturn)

\* the supervisor's loop under fair scheduling of main, the input thread's end of
\* input and the downloaders (SIGTERM and further input lines need not happen)
FairSupervisor ==
    /\ SpecSupervisor
    /\ WF_vars(Main) /\ WF_vars(InEOF)
    /\ \A w \in Workers : WF_vars(Engine(w))

\* ------------------------------------------------------------------ properties

JobsInQueue == {queue[i] : i \in 1..Len(queue)}

\* C1: no URL is enqueued twice: at most one Job is ever created per URL.
C1_NoUrlEnqueuedTwice ==
    \A u \in IRIs : enq[u] <= 1

\* C2: while the robots.txt Job of a host is in flight, no other Job for a URL of
\* that host is in the queue (so none can be taken): URLs admitted meanwhile are parked.
C2_RobotsFirst ==
    \A j \in JobsInQueue :
        hosts[j.url0.host].robot_job # 0 => j.id = hosts[j.url0.host].robot_job

\* a downloader holds the robots.txt Job of a host and two URLs of the host are parked on it
C2_Parked ==
    \E j \in JobsInQueue :
        /\ j.inuse /\ hosts[j.url0.host].robot_job = j.id
        /\ Len(j.deferred) >= 2
        /\ \A i \in 1..Len(j.deferred) : j.deferred[i].host = j.url0.host

C4_CompleteOnlyWhenValid ==
    [][\A i \in 1..Len(queue) :
          LET j == queue[i] IN
          (j.parts # <<>> /\ ~has_job(queue', j.id)) =>
             /\ \A k \in 1..Len(j.parts) : j.parts[k].done
             /\ \E caller \in {"load", "parts"} : <<j.id, caller>> \in validations']_vars

\* a Job whose parts were fetched has been validated by download_part and removed
C4_Completed ==
    \E id \in 1..MaxJobs : <<id, "parts">> \in validations /\ ~has_job(queue, id)

\* C5: a seed Job has level 0 and redirection level 0, a link Job has its parent's level
\* plus one, a redirection Job has its parent's level and its redirection level plus one.
C5_LevelsFollowParent ==
    \A j \in JobsInQueue :
        /\ j.origin = "seed" => (j.level = 0 /\ j.redirection_level = 0)
        /\ j.origin = "link" => j.level = j.plevel + 1
        /\ j.origin = "redirect" =>
              (j.level = j.plevel /\ j.redirection_level = j.prlevel + 1)

\* C6: with max_redirect M > 0 no Job has a redirection level above M.
C6_RedirectionBounded ==
    \A j \in JobsInQueue : j.redirection_level <= config.max_redirect

\* add_url has refused the redirection of a Job whose redirection level is M
C6_Refused ==
    /\ refused
    /\ \E j \in JobsInQueue : j.inuse /\ j.redirection_level = config.max_redirect

\* C7: once the queue is empty and the input thread is gone (one of the three conditions
\* on which the supervisor is to leave its wait), the supervisor leaves its loop.
C7_MainLeaves ==
    (queue_empty /\ ~input_tid) ~> (mainpc \in {"stop", "join", "done"})

\* C8: once terminate is set no downloader takes a Job from the queue.
C8_NoTakeAfterTerminate ==
    [][terminate => \A w \in Workers : (wjob[w] = 0 => wjob'[w] = 0)]_vars

Lowest(S) == IF S = {} THEN 0 ELSE CHOOSE s \in S : \A t \in S : s <= t

\* C9: when no set_exit_status call is under way, exit_status is the lowest status
\* reported so far (0 when none was).
C9_LowestStatusWins ==
    (\A w \in Workers : pc[w] \notin {"ses_r", "ses_w"}) => exit_status = Lowest(reported)

\* C10: no URL is requested whose path the loaded robots.txt rules of its host disallow.
C10_NoDisallowedGet ==
    \A u \in gets : ~robots_disallow(hosts[u.host], u)

\* C11: with https_only set, no Job is ever created for a URL whose scheme is not https,
\* whichever way the URL came in (command line, link, redirection).
C11_OnlyHttpsJobs ==
    config.https_only => \A j \in JobsInQueue : j.url0.scheme = "https"

\* the Jobs that add_url created for a link or for a redirection target
FollowedJobs == {j \in JobsInQueue : j.origin \in {"link", "redirect"}}

C13_ParentTestDecides ==
    (config.recursive /\ ~config.parent) =>
        /\ mainpc # "crashed"
        /\ \A j \in FollowedJobs :
              \E i \in 1..Len(scope.parents) :
                 LET p == scope.parents[i] IN
                 /\ p.host = j.url0.host
                 /\ Len(j.url0.path) >= dirlen(p)
                 /\ SubSeq(j.url0.path, 1, dirlen(p)) = SubSeq(p.path, 1, dirlen(p))

\* the bytes of the file that belong to part k of Job j
part_range(j, k) ==
    {o \in 1..j.size : o > j.parts[k].position /\ o <= j.parts[k].position + j.parts[k].length}

C15_AttemptsWithinTries ==
    \A w \in Workers :
        (wjob[w] # 0 /\ has_job(queue, wjob[w])) =>
            /\ tries[w] <= config.tries
            /\ hosts[job_of(queue, wjob[w]).url0.host].failures >= tries[w]

C17_WaiterProceeds ==
    (cond_test.mpc = "unlock") ~>
        (cond_test.mpc = "done" /\ cond_test.exit_code = "0")

\* the signal found the thread blocked in its wait, and the test has ended with the
\* thread's value
C17_SignalledWhileWaiting ==
    /\ cond_test.signalled
    /\ cond_test.mpc = "done" /\ cond_test.exit_code = "0"

C19_DigestPreferred ==
    \A w \in Workers :
       LET offered == {http[w].auth.offered[i] : i \in 1..Len(http[w].auth.offered)} IN
       /\ "digest" \in offered => http[w].auth.used = "digest"
       /\ http[w].auth.used = "basic" => "digest" \notin offered

\* C20: a response whose Link headers name a metalink description leads to exactly one
\* Job, for the first such description; one that names duplicates only leads to exactly
\* one Job, for the duplicate of lowest pri (the first of them on ties); in both cases
\* no Job is made for the Location header.  (Stated for link URLs that were not known
\* before the response.)
C20_LinksBeforeLocation ==
    \A w \in Workers :
       LET m == http[w].linked
           D == {i \in 1..Len(m.rels) : /\ m.rels[i].rel = "describedby"
                                         /\ m.rels[i].type \in MetalinkTypes}
           P == {i \in 1..Len(m.rels) : m.rels[i].rel = "duplicate"}
           best == {i \in P : \A k \in P : \/ m.rels[i].pri < m.rels[k].pri
                                            \/ (m.rels[i].pri = m.rels[k].pri /\ i <= k)}
           chosen == IF D # {} THEN {i \in D : \A k \in D : i <= k} ELSE best
       IN \A i \in chosen :
             m.rels[i].uri \notin m.known => m.jobs = <<m.rels[i].uri>>

\* C21: the body of a 206 response is appended exactly when --continue is set and the
\* range the server returned starts where the request asked (at the size of the local
\* file); in every other case the handling of the response appends nothing.
C21_AppendIffRangeEchoed ==
    [][(fs'.handled # fs.handled /\ fs'.last.code = 206) =>
          ((fs'.last.outcome = "appended" \/ fs'.files # fs.files) <=>
             (config.continue_download /\ fs'.last.range_got = fs'.last.range_sent))]_vars

free_numbers(files, top) == {n \in 1..top : ~files[<<LocalFile, n>>].exists}

\* a step that saved a 200 response to the local file, which existed, in a run without
\* --timestamping and --output-document
SavedOverExisting ==
    /\ fs'.handled # fs.handled /\ fs'.last.code = 200
    /\ ~config.timestamping /\ config.output_document = ""
    /\ fs.files[<<LocalFile, 0>>].exists

\* C23 as stated: with clobber the existing file is emptied and rewritten and no other
\* file is made; without clobber, outside recursive runs with directories, the file
\* stays as it is and the body goes to name.N for the smallest N that is free.
C23_ClobberOverwrites ==
    [][SavedOverExisting =>
         LET free == free_numbers(fs.files, MaxFnum)
             body == fs'.last.body
         IN /\ config.clobber =>
                 /\ fs'.files[<<LocalFile, 0>>].data = body
                 /\ \A p \in FilePaths \ {<<LocalFile, 0>>} : fs'.files[p] = fs.files[p]
            /\ (~config.clobber /\ ~(config.recursive /\ config.directories)) =>
                 /\ fs'.files[<<LocalFile, 0>>] = fs.files[<<LocalFile, 0>>]
                 /\ \A n \in free : (\A k \in free : n <= k) =>
                        fs'.files[<<LocalFile, n>>].data = body]_vars

\* C23 amended: with clobber, outside recursive runs with directories, the file stays
\* as it is and the body goes to name.N for the smallest free N below the last number
\* tried, and no other file changes; with clobber in a recursive run with directories
\* the file is emptied and rewritten and no other file is made; without clobber,
\* outside recursive runs with directories, no file changes at all.
C23_ClobberNumbersFiles ==
    [][SavedOverExisting =>
         LET free == free_numbers(fs.files, MaxFnum - 1)
             body == fs'.last.body
             rd == config.recursive /\ config.directories
         IN /\ (config.clobber /\ ~rd) =>
                 \A n \in free : (\A k \in free : n <= k) =>
                    /\ fs'.files[<<LocalFile, n>>].data = body
                    /\ \A p \in FilePaths \ {<<LocalFile, n>>} : fs'.files[p] = fs.files[p]
            /\ (config.clobber /\ rd) =>
                 /\ fs'.files[<<LocalFile, 0>>].data = body
                 /\ \A p \in FilePaths \ {<<LocalFile, 0>>} : fs'.files[p] = fs.files[p]
            /\ (~config.clobber /\ ~rd) => fs'.files = fs.files]_vars

\* with clobber a body was saved as name.2 beside the existing name and name.1
C23_SavedAsNumbered ==
    /\ config.clobber /\ ~(config.recursive /\ config.directories)
    /\ ~config.timestamping /\ config.output_document = ""
    /\ fs.handled = 1 /\ fs.last.code = 200 /\ fs.last.outcome = "saved"
    /\ fs.files[<<LocalFile, 0>>] = File(<<1>>, "t1")
    /\ fs.files[<<LocalFile, 1>>] = File(<<9>>, "t1")
    /\ fs.files[<<LocalFile, 2>>].data = fs.last.body

\* C24: with --output-document, a 200 response saved after an earlier successful save
\* is added at the end of the output document, whatever clobber and timestamping are:
\* the document then holds what it held followed by the body, and the save neither
\* fails nor finds the file 'already there'.
C24_OutputDocumentAppends ==
    [][(/\ fs'.handled # fs.handled /\ fs'.last.code = 200
        /\ config.output_document = OutputDocument
        /\ fs.last.code = 200 /\ fs.last.outcome \in {"saved", "appended"}) =>
          /\ fs'.last.outcome \in {"saved", "appended"}
          /\ fs'.files[<<OutputDocument, 0>>].data =
                fs.files[<<OutputDocument, 0>>].data \o fs'.last.body]_vars

\* the answers with a status code from 400 to 499
ClientErrors == {"auth", "forbidden", "notfound"}

\* C25: when a downloader has a 4xx response as the final answer for its Job, it parses
\* no link out of it and calls set_exit_status(8); but after a 404 for a robots.txt Job
\* it makes no such call and the host stays without rules.
C25_ClientErrorSetsStatus ==
    [][\A w \in Workers :
         (pc[w] = "fetch" /\ pc'[w] # "fetch" /\ http'[w].answer \in ClientErrors) =>
            LET job == job_of(queue, wjob[w]) IN
            /\ links'[w] = <<>>
            /\ IF job.has_deferred /\ http'[w].answer = "notfound"
               THEN ses'[w] = ses[w] /\ hosts' = hosts /\ pc'[w] = "ready"
               ELSE ses'[w].status = 8 /\ pc'[w] = "ses_r"]_vars

\* s begins with p
starts_with(s, p) == Len(p) <= Len(s) /\ SubSeq(s, 1, Len(p)) = p
\* B up to and including its last '/'
directory_prefix(base) ==
    SubSeq(base, 1, CHOOSE i \in 0..Len(base) :
                       /\ i # 0 => base[i] = "/"
                       /\ \A j \in (i + 1)..Len(base) : base[j] # "/")

\* C26: a URL listed in the sitemap at B goes to add_url if and only if it starts
\* with the directory prefix of B; every other URL is reported as not matching the
\* sitemap location.
C26_AdmittedIffUnderLocation ==
    (call.fn \in {"sitemap_parse_xml", "sitemap_parse_text"}
       /\ directory_prefix(call.args[1]) # <<>>) =>
         (call.result.add_url <=> starts_with(call.args[2], directory_prefix(call.args[1])))

\* C27: when a downloader passes a link of its document to add_url and a Job is
\* created, the new Job's referer is the URL of the parent Job, for the first link as
\* for the later ones, and the parent Job still has its URL.
C27_RefererIsParentUrl ==
    [][\A w \in Workers :
         (pc[w] = "discover" /\ links'[w] # links[w] /\ nextId' = nextId + 1) =>
            LET parent == job_of(queue, wjob[w]) IN
            /\ job_of(queue', nextId).referer = parent.url0
            /\ job_of(queue', wjob[w]).iri = parent.url0]_vars

C29_NoWaitNoRetry ==
    (call.fn \in {"wget_tcp_read", "wget_tcp_write"} /\ call.args[1] = 0) =>
        /\ call.result.waits = 0
        /\ call.fn = "wget_tcp_read" => call.result.pc = "returned"
        /\ (call.fn = "wget_tcp_write" /\ call.result.errno = "EAGAIN") =>
              call.result.pc = "returned"

\* C30: once main has set terminate and signalled worker_cond, every downloader
\* leaves its loop and returns, whether it was waiting on worker_cond or had tested
\* terminate and was about to wait, so that main's joins complete.
C30_WorkersExitAfterTerminate ==
    (terminate /\ mainpc = "join") ~> (\A w \in Workers : pc[w] = "done")

\* a Job of the queue that queue_get would hand to a downloader
TakeableJob == \E i \in 1..Len(queue) : ~queue[i].inuse /\ queue[i].parts = <<>>

\* C31: while terminate is not set, a Job in the queue that no downloader has taken
\* is taken in the end: no downloader stays in its wait on worker_cond while the queue
\* holds a Job to take, however the enqueuing and its signal fall between a
\* downloader's look at the empty queue and its wait.
C31_EnqueuedJobTaken ==
    (TakeableJob /\ ~terminate) ~> (~TakeableJob \/ terminate)

\* C32: no two downloaders hold the same part of a Job; a downloader takes only a part
\* that is neither in use nor done, and asks a mirror only for a part that is not
\* done, so a part is written successfully once at most; a part that failed on
\* every mirror is no longer in use when its downloader lets go of it, and can be
\* taken again.
C32_PartOwnedByOne ==
    [][/\ \A w1 \in Workers, w2 \in Workers :
            (w1 # w2 /\ wpart[w1] # 0 /\ wjob[w1] = wjob[w2]) => wpart[w1] # wpart[w2]
       /\ \A w \in Workers :
            (wpart[w] = 0 /\ wpart'[w] # 0) =>
                LET p == job_of(queue, wjob'[w]).parts[wpart'[w]] IN
                /\ ~p.inuse /\ ~p.done
                /\ job_of(queue', wjob'[w]).parts[wpart'[w]].inuse
       /\ \A w \in Workers :
            (pc[w] = "part" /\ tries'[w] = tries[w] + 1) =>
                ~job_of(queue, wjob[w]).parts[wpart[w]].done
       /\ \A w \in Workers :
            (pc[w] = "part" /\ wpart'[w] = 0 /\ has_job(queue, wjob[w])
               /\ ~job_of(queue, wjob[w]).parts[wpart[w]].done) =>
                wpart[w] \in free_parts(job_of(queue', wjob[w]))]_vars

\* two downloaders hold the two parts of one Job, one part is done, and the downloader
\* of the other has asked every mirror in vain
C32_PartFailedOnEveryMirror ==
    \E w1 \in Workers, w2 \in Workers :
        /\ pc[w1] = "part" /\ pc[w2] = "part" /\ wjob[w1] = wjob[w2]
        /\ wpart[w1] # 0 /\ wpart[w2] # 0 /\ wpart[w1] # wpart[w2]
        /\ LET j == job_of(queue, wjob[w1]) IN
           /\ \E k \in 1..Len(j.parts) : j.parts[k].done
           /\ tries[w1] = j.mirrors /\ ~j.parts[wpart[w1]].done

\* C33: when every thread resolves with caching, one thread at most is inside the
\* platform resolution at any time, the platform resolution of a key succeeds once at
\* most, and no thread starts a platform resolution for a key the cache holds.
C33_OneResolutionPerKey ==
    (\A t \in Resolvers : dns.th[t].caching) =>
        /\ Cardinality({t \in Resolvers : dns.th[t].pc = "resolving"}) <= 1
        /\ \A k \in ResolveKeys : dns.lookups[k] <= 1
        /\ \A t \in Resolvers :
              dns.th[t].pc \in {"resolve", "resolving"} => ~dns.cache[dns.th[t].key]

\* with caching everywhere, one thread has resolved a key and another, which found
\* the cache empty at first, has got the cached list for it
C33_SecondCallerCached ==
    /\ \A t \in Resolvers : dns.th[t].caching
    /\ \E t1 \in Resolvers, t2 \in Resolvers :
         /\ t1 # t2 /\ dns.th[t1].key = dns.th[t2].key
         /\ dns.th[t1].result = "resolved"
         /\ dns.th[t2].result = "cached" /\ dns.th[t2].locks = 1

\* C40: resolve_mutex is never unlocked by a thread that does not hold it nor locked
\* by the thread that holds it; a thread holds it neither while it sleeps between
\* attempts nor after wget_tcp_resolve has returned, when it has unlocked it once for
\* each time it locked it; a thread without caching never locks or unlocks the mutex
\* and never touches the cache.
C40_MutexBalanced ==
    /\ ~dns.bad_unlock
    /\ \A t \in Resolvers :
         /\ dns.th[t].pc \in {"lock", "sleep", "returned", "idle"} => dns.mutex # t
         /\ dns.th[t].pc = "returned" => dns.th[t].locks = dns.th[t].unlocks
         /\ ~dns.th[t].caching =>
               (dns.th[t].locks = 0 /\ dns.th[t].unlocks = 0 /\ ~dns.th[t].touched)

\* a call with caching has returned NULL after three transient failures, with the
\* mutex locked three times; a call without caching has returned a list
C40_ThirdAttemptFailed ==
    \E t1 \in Resolvers, t2 \in Resolvers :
        /\ dns.th[t1].caching /\ dns.th[t1].result = "failed"
        /\ dns.th[t1].rc = "EAI_AGAIN" /\ dns.th[t1].locks = ResolveMax
        /\ ~dns.th[t2].caching /\ dns.th[t2].result = "resolved"

Access(obj, writes, held) == [obj |-> obj, write |-> writes, held |-> held]

\* add_url and add_url_to_queue work on the blacklist, the hosts and the vector
\* parents between lock and unlock of downloader_mutex (340-394, 440-544)
admission_accesses ==
    {Access(o, TRUE, {"downloader_mutex"}) : o \in {"blacklist", "hosts", "parents"}}

\* what the step downloader w is about to take may read or write: the ETag set under
\* etag_mutex (887-892); quota under the mutex of quota_modify_read (313-316);
\* host->robots of a robots.txt Job under no mutex (1072); known_urls under no mutex
\* (1209), then add_url, which reads host->robots (503)
worker_accesses(w) ==
    IF pc[w] = "head" THEN {Access("etags", TRUE, {"etag_mutex"})}
    ELSE IF pc[w] = "fetch"
    THEN (IF config.quota # 0 THEN {Access("quota", TRUE, {"mutex"})} ELSE {})
         \cup (IF config.recursive /\ job_of(queue, wjob[w]).has_deferred
               THEN {Access("robots", TRUE, {})} ELSE {})
    ELSE IF pc[w] = "discover" /\ links[w] # <<>>
    THEN (IF Head(links[w]).known THEN {Access("known_urls", TRUE, {})} ELSE {})
         \cup admission_accesses \cup {Access("robots", FALSE, {"downloader_mutex"})}
    ELSE {}

\* main reads quota under main_mutex (749-756)
main_accesses ==
    IF mainpc = "check" /\ config.quota # 0
    THEN {Access("quota", FALSE, {"main_mutex"})} ELSE {}

\* the input thread calls add_url_to_queue (816)
input_accesses == IF config.input /\ input_tid THEN admission_accesses ELSE {}

\* no access of one set is to the structure of an access of the other, one of them
\* writing, without a mutex held in both
guarded(as, bs) ==
    \A a1 \in as, a2 \in bs :
        (a1.obj = a2.obj /\ (a1.write \/ a2.write)) => a1.held \cap a2.held # {}

\* C35: two threads never access the same shared structure at the same time, one of
\* them writing, unless both hold a mutex in common.
C35_NoConcurrentWrite ==
    /\ \A w \in Workers, v \in Workers :
          w # v => guarded(worker_accesses(w), worker_accesses(v))
    /\ \A w \in Workers : /\ guarded(worker_accesses(w), main_accesses)
                          /\ guarded(worker_accesses(w), input_accesses)
    /\ guarded(main_accesses, input_accesses)

\* C37: the last step for a metalink Job is taken by one downloader: no two
\* downloaders are at the validation of the same Job, and a downloader that is in
\* download_part works on a Job that is in the queue.
C37_OneFinisher ==
    \A w \in Workers :
        (wjob[w] # 0 /\ pc[w] \in {"part", "validate"}) =>
           /\ has_job(queue, wjob[w])
           /\ \A v \in Workers \ {w} : ~(pc[v] = "validate" /\ pc[w] = "validate"
                                            /\ wjob[v] = wjob[w])

\* a part of the Job was written with bytes that do not match the hash of its piece
corrupt_part(id) ==
    /\ has_job(queue, id)
    /\ \E k \in 1..Len(job_of(queue, id).parts) :
          job_of(queue, id).parts[k].done /\ ~job_of(queue, id).parts[k].good

\* C38: under fair scheduling every Job that is in the queue is removed from it in
\* the end, be it a Job with parts that fail on every mirror; stated for the runs
\* that do not end on a memory fault and in which what is written for a part matches
\* the hash of its piece.
C38_EveryJobRemoved ==
    \A id \in 1..MaxJobs :
        has_job(queue, id) ~> (~has_job(queue, id) \/ mainpc = "crashed" \/ corrupt_part(id))

\* C39: a call of http_get makes a bounded number of requests: it asks for a URL a
\* second time only once, with credentials, right after the first 401 response with
\* challenges; after a 1xx or 3xx response without Location it asks for nothing
\* again, and a chain of redirections followed for a part never comes back to a URL.
C39_BoundedRequests ==
    call.fn = "http_get" =>
       \A i \in 1..Len(call.result.log), j \in 1..Len(call.result.log) :
          (i < j /\ call.result.log[i].iri = call.result.log[j].iri) =>
             /\ j = i + 1
             /\ call.result.log[i].kind = "challenge"
             /\ \A k \in 1..(i - 1) : call.result.log[k].kind # "challenge"

\* C36: the set of the link strings seen is local to one document: a link of a
\* document is skipped only if the same string came earlier in that document, so
\* that in a run without restrictions every turn of the loop of html_parse leaves
\* the URL of its link among the URLs add_url has accepted.
C36_TokenSubmittedPerDocument ==
    [][\A w \in Workers :
          (pc[w] = "discover" /\ links[w] # <<>> /\ links'[w] = Tail(links[w])) =>
             Head(links[w]).url \in blacklist'
      ]_vars

====
